---- MODULE Spec2Model ----
(***************************************************************************)
(* The per-entity sync engine of ember-core-server: the document           *)
(* collections, the sync handlers of the seven entity kinds, the conflict  *)
(* reducers and the resolve-conflict handlers.                             *)
(*                                                                         *)
(* Values.  A string is a sequence of character codes (ASCII), so that     *)
(* toLowerCase, trim, includes and slice are computed, not assumed.  The   *)
(* empty sequence stands for every falsy string value of the source        *)
(* (undefined, null, "").  A timestamp is [k, t]: an ISO-8601 string       *)
(* ("iso") that parses to instant t, a store Timestamp object ("ts"), a    *)
(* string that is no date ("bad"), null, or none (undefined).  Document    *)
(* ids are small naturals; a query returns its documents in id order.      *)
(***************************************************************************)
EXTENDS Integers, Sequences, FiniteSets, TLC

\* ------------------------------------------------------------------ bounds
\* Instants (client timestamps and the server clock) range over 1..MaxT.
MaxT == 2

VARIABLES
    kind,              \* the entity kind whose collection this run exercises
    users,             \* usersCollection: user_id -> document
    registrations,     \* collection('registrations')
    locations,         \* collection('locations')
    tasks,             \* collection('tasks')
    task_assignments,  \* collection('task_assignments')
    supplies,          \* collection('supplies')
    alerts,            \* collection('alerts')
    clock,             \* the server's wall clock (new Date(), serverTimestamp())
    req,               \* the body of the last request handled
    res,               \* the response to it
    turn,              \* parity of the number of requests handled
    proc,              \* the requests in flight of the interleaved runs
    auth,              \* admin.auth(): uid -> [email, password]
    otps,              \* collection('otps'): email -> [otp, expiresAt]
    tokens,            \* the tokens /login has answered with
    verified           \* history: the emails a verify-otp was answered 200 for

vars == <<kind, users, registrations, locations, tasks, task_assignments,
          supplies, alerts, clock, req, res, turn, proc, auth, otps, tokens,
                   verified>>

\* ------------------------------------------------------------------ values
NoStr == <<>>
NoTime == [k |-> "none", t |-> 0]
Iso(n) == [k |-> "iso", t |-> n]
ServerTimestamp(n) == [k |-> "ts", t |-> n]
\* JSON null, and a non-empty string that Date cannot parse.
NullTime == [k |-> "null", t |-> 0]
BadTime == [k |-> "bad", t |-> 0]
Instants == 1..MaxT
IsoTimes == {Iso(n) : n \in Instants}

\* An Invalid Date: every comparison with it is false.
NaN == -1

\* new Date(null) is the epoch, instant 0.
Epoch == 0

\* new Date(x): an ISO string parses and null is the epoch; undefined, a
\* Timestamp object and any other string give an Invalid Date.
NewDate(x) ==
    CASE x.k = "iso" -> x.t
      [] x.k = "null" -> Epoch
      [] OTHER -> NaN

\* !x for a timestamp field: undefined and null.
Falsy(x) == x.k \in {"none", "null"}

\* x ? (x.toDate ? x.toDate() : new Date(x)) : null, with null as NaN: every
\* use of the result is guarded by its truthiness.
ToDate(x) == IF x.k \in {"iso", "ts"} THEN x.t ELSE NaN

\* a < b on two Dates.
DateLt(a, b) == a # NaN /\ b # NaN /\ a < b

\* a || b for timestamps.
OrTime(a, b) == IF Falsy(a) THEN b ELSE a

\* String.prototype.toLowerCase on character codes.
ToLowerCase(s) == [i \in 1..Len(s) |-> IF s[i] \in 65..90 THEN s[i] + 32 ELSE s[i]]

RECURSIVE TrimLeft(_)
TrimLeft(s) == IF s # <<>> /\ Head(s) = 32 THEN TrimLeft(Tail(s)) ELSE s

RECURSIVE TrimRight(_)
TrimRight(s) ==
    IF s # <<>> /\ s[Len(s)] = 32 THEN TrimRight(SubSeq(s, 1, Len(s) - 1)) ELSE s

\* String.prototype.trim.
Trim(s) == TrimRight(TrimLeft(s))

\* a.includes(b).
Includes(a, b) ==
    \E i \in 0..(Len(a) - Len(b)) : SubSeq(a, i + 1, i + Len(b)) = b

\* s.replace(/\D/g, '').
DigitsOnly(s) == SelectSeq(s, LAMBDA c : c \in 48..57)

\* s.slice(-10).
SliceLast10(s) == IF Len(s) <= 10 THEN s ELSE SubSeq(s, Len(s) - 9, Len(s))

\* The first document, in id order, of a query result.
MinId(S) == CHOOSE x \in S : \A y \in S : x <= y

\* A set that leaves the written document alone in its collection.
DocSetAlone(col, id, doc) == [x \in {id} |-> doc]

\* ref.set(doc) and ref.update(patch) on a collection.
DocSet(col, id, doc) == [x \in DOMAIN col \cup {id} |-> IF x = id THEN doc ELSE col[x]]

Truthy(s) == s # NoStr

\* {...server, ...client} on one string field: a key the client sent overrides.
Spread(server, client) == IF client # NoStr THEN client ELSE server

\* The same on a timestamp field.
SpreadTime(server, client) == IF client.k # "none" THEN client ELSE server

\* A field a document may lack: 0 stands for undefined.
Field(doc, f) == IF f \in DOMAIN doc THEN doc[f] ELSE 0

\* A string field a record may lack: NoStr stands for undefined.
FieldStr(doc, f) == IF f \in DOMAIN doc THEN doc[f] ELSE NoStr

\* An enum field a record may lack: "" stands for undefined.
FieldEnum(doc, f) == IF f \in DOMAIN doc THEN doc[f] ELSE ""

\* a > b on statusRank lookups: a status outside the table ranks undefined
\* (0 here), and no comparison with undefined is true.
RankGt(a, b) == a # 0 /\ b # 0 /\ a > b

\* A comparison that never finds the client newer.
ClientNeverNewer(clientData, serverData) == FALSE

\* clientUpdatedAt && serverUpdatedAt && clientUpdatedAt > serverUpdatedAt
ClientNewer(clientData, serverData) ==
    /\ ~Falsy(clientData.updated_at)
    /\ ~Falsy(serverData.updated_at)
    /\ DateLt(ToDate(serverData.updated_at), NewDate(clientData.updated_at))

\* a || b for enum strings ("" is undefined).
OrStr(a, b) == IF a = "" THEN b ELSE a

\* ---------------------------------------------------------------- responses
ClientWinsOnly == <<"client_wins">>
ThreeStrategies == <<"client_wins", "server_wins", "merge">>
FourStrategies == <<"client_wins", "server_wins", "merge", "update_data">>

\* res.status(200).json({message})
Ok200 ==
    [status |-> 200, conflict_field |-> "none", conflict_type |-> "none",
     allowed_strategies |-> <<>>, resolved_as |-> "none", server_id |-> 0]

\* res.status(200).json({message, resolved_as, server_<entity>_id})
AutoResolved200(what, id) ==
    [Ok200 EXCEPT !.resolved_as = what, !.server_id = id]

\* res.status(409).json({error, conflict_field, conflict_type?, latest_data,
\* allowed_strategies?, server_id?}); latest_data is named by server_id.
Conflict409(field, type, strategies, id) ==
    [status |-> 409, conflict_field |-> field, conflict_type |-> type,
     allowed_strategies |-> strategies, resolved_as |-> "none", server_id |-> id]

NoRes ==
    [status |-> 0, conflict_field |-> "none", conflict_type |-> "none",
     allowed_strategies |-> <<>>, resolved_as |-> "none", server_id |-> 0]

\* What a handler returns: the collection after it and the response.
Done(col, response) == [col |-> col, res |-> response]

\* The 200 of a resolve-conflict handler.
Resolved200(strategy, strategies, resolvedData, isNew) ==
    [status |-> 200, resolution_strategy |-> strategy,
     allowed_strategies |-> strategies, resolvedData |-> resolvedData,
     isNew |-> isNew]

\* The 400, 404 or 409 of a resolve-conflict handler.
ResolveError(status, field, type, strategies) ==
    [status |-> status, conflict_field |-> field, conflict_type |-> type,
     allowed_strategies |-> strategies]

\* -------------------------------------------------------------------- User
\* models/userModel.js createUserDoc
createUserDoc(col, uid, data, now) ==
    DocSet(col, uid,
        [user_id |-> uid,
         name |-> data.name,
         email |-> data.email,
         phone_number |-> data.phone_number,
         image_url |-> data.image_url,
         role |-> data.role,
         created_at |-> OrTime(data.created_at, ServerTimestamp(now)),
         updated_at |-> OrTime(data.updated_at, ServerTimestamp(now))])

\* models/userModel.js updateUserDoc
updateUserDoc(col, uid, data, now) ==
    [col EXCEPT ![uid] =
        [@ EXCEPT !.name = data.name,
                  !.email = data.email,
                  !.role = data.role,
                  !.phone_number = data.phone_number,
                  !.image_url = data.image_url,
                  !.updated_at = OrTime(data.updated_at, ServerTimestamp(now))]]

\* The id of the first other document holding value in field, or 0 (null).
checkUniqueFieldExists(col, field, value, currentUserId) ==
    IF ~Truthy(value) THEN 0
    ELSE LET others == {x \in DOMAIN col :
                           /\ col[x][field] = value
                           /\ (currentUserId = 0 \/ x # currentUserId)}
         IN  IF others = {} THEN 0 ELSE MinId(others)

\* name: lowercase-trim and containment either way.
SameName(a, b) ==
    LET x == Trim(ToLowerCase(a))
        y == Trim(ToLowerCase(b))
    IN  x = y \/ Includes(x, y) \/ Includes(y, x)

B2N(b) == IF b THEN 1 ELSE 0

isSameUserProfile(clientData, serverData) ==
    LET both(f) == Truthy(clientData[f]) /\ Truthy(serverData[f])
        nameM == both("name") /\ SameName(clientData.name, serverData.name)
        emailM == both("email")
                  /\ ToLowerCase(clientData.email) = ToLowerCase(serverData.email)
        phoneM == both("phone_number")
                  /\ SliceLast10(DigitsOnly(clientData.phone_number))
                       = SliceLast10(DigitsOnly(serverData.phone_number))
        roleM == clientData.role = serverData.role
        totalFields == B2N(both("name")) + B2N(both("email"))
                       + B2N(both("phone_number")) + 1
        matchCount == B2N(nameM) + B2N(emailM) + B2N(phoneM) + B2N(roleM)
    IN  (emailM /\ matchCount >= 2) \/ (matchCount * 10 >= totalFields * 8)

\* {...server, ...user, user_id: server id, updated_at: new Date().toISOString()}
\* as updateUserDoc reads it.
UserMergedData(serverData, user, id, now) ==
    [user_id |-> id,
     name |-> Spread(serverData.name, user.name),
     email |-> Spread(serverData.email, user.email),
     phone_number |-> Spread(serverData.phone_number, user.phone_number),
     image_url |-> Spread(serverData.image_url, user.image_url),
     role |-> user.role,
     created_at |-> SpreadTime(serverData.created_at, user.created_at),
     updated_at |-> Iso(now)]

\* A create path that answers as the auto-merge does, but stores the merged
\* data under the client's key.
UserCreateProbeOwnKey(col, user, field, now) ==
    LET hit == checkUniqueFieldExists(col, field, user[field], 0) IN
    IF hit = 0 THEN Done(col, NoRes)
    ELSE Done(createUserDoc(col, user.user_id, user, now),
              AutoResolved200("same_user_detected", hit))

\* The create path of syncUserFromClient on one unique field: auto-merge into
\* the holder, a unique_constraint conflict, or nothing found (status 0).
UserCreateProbe(col, user, field, now) ==
    LET hit == checkUniqueFieldExists(col, field, user[field], 0) IN
    IF hit = 0 THEN Done(col, NoRes)
    ELSE IF isSameUserProfile(user, col[hit])
    THEN Done(updateUserDoc(col, hit, UserMergedData(col[hit], user, hit, now), now),
              AutoResolved200("same_user_detected", hit))
    ELSE Done(col, Conflict409(field, "unique_constraint", ClientWinsOnly, hit))

\* The update path on one unique field: the 409 of a holder, or nothing found.
UserUpdateProbe(col, user, field) ==
    LET hit == checkUniqueFieldExists(col, field, user[field], user.user_id) IN
    IF hit = 0 THEN NoRes
    ELSE IF isSameUserProfile(user, col[hit])
    THEN Conflict409(field, "potential_duplicate_account", ThreeStrategies, hit)
    ELSE Conflict409(field, "unique_constraint", FourStrategies, hit)

\* The staleness test with its operands exchanged.
IsStaleSwapped(clientData, serverData) ==
    DateLt(NewDate(serverData.updated_at), NewDate(clientData.updated_at))

\* The staleness test of every sync handler: clientUpdated < serverUpdated.
IsStale(clientData, serverData) ==
    DateLt(NewDate(clientData.updated_at), NewDate(serverData.updated_at))

\* controllers/sync/userSyncController.js syncUserFromClient, for a body that
\* passed its validation.
syncUserFromClient(col, user, now) ==
    IF user.user_id \in DOMAIN col
    THEN LET serverData == col[user.user_id]
             emailRes == IF user.email # serverData.email
                         THEN UserUpdateProbe(col, user, "email") ELSE NoRes
             phoneRes == IF Truthy(user.phone_number)
                            /\ user.phone_number # serverData.phone_number
                         THEN UserUpdateProbe(col, user, "phone_number") ELSE NoRes
         IN  IF IsStale(user, serverData)
             THEN Done(col, Conflict409("updated_at", "none", FourStrategies,
                                        user.user_id))
             ELSE IF emailRes.status # 0 THEN Done(col, emailRes)
             ELSE IF phoneRes.status # 0 THEN Done(col, phoneRes)
             ELSE Done(updateUserDoc(col, user.user_id, user, now), Ok200)
    ELSE LET emailRes == UserCreateProbe(col, user, "email", now)
             phoneRes == UserCreateProbe(col, user, "phone_number", now)
         IN  IF emailRes.res.status # 0 THEN emailRes
             ELSE IF phoneRes.res.status # 0 THEN phoneRes
             ELSE Done(createUserDoc(col, user.user_id, user, now), Ok200)

\* resolveUserConflict; any strategy name but the first three is a merge.
resolveUserConflict(clientData, serverData, strategy, now) ==
    CASE strategy = "client_wins" -> clientData
      [] strategy = "server_wins" -> serverData
      [] strategy = "update_data" ->
            [clientData EXCEPT !.email = serverData.email,
                               !.phone_number = serverData.phone_number,
                               !.updated_at = Iso(now)]
      [] OTHER ->
            IF ClientNewer(clientData, serverData)
            THEN [user_id |-> clientData.user_id,
                  name |-> Spread(serverData.name, clientData.name),
                  email |-> Spread(serverData.email, clientData.email),
                  phone_number |-> Spread(serverData.phone_number, clientData.phone_number),
                  image_url |-> Spread(serverData.image_url, clientData.image_url),
                  role |-> OrStr(clientData.role, serverData.role),
                  created_at |-> SpreadTime(serverData.created_at, clientData.created_at),
                  updated_at |-> clientData.updated_at]
            ELSE serverData

\* controllers/sync/userSyncController.js resolveUserSyncConflict
resolveUserSyncConflict(col, user_id, resolution_strategy, clientData, now) ==
    LET emailCheck == checkUniqueFieldExists(col, "email", clientData.email, user_id)
        phoneCheck == checkUniqueFieldExists(col, "phone_number",
                                             clientData.phone_number, user_id)
    IN  IF user_id \notin DOMAIN col
        THEN IF resolution_strategy \in {"server_wins", "update_data"}
             THEN Done(col, ResolveError(400, "none", "none", ClientWinsOnly))
             ELSE IF emailCheck # 0
             THEN Done(col, ResolveError(409, "email", "unique_constraint", ClientWinsOnly))
             ELSE IF phoneCheck # 0
             THEN Done(col, ResolveError(409, "phone_number", "unique_constraint",
                                         ClientWinsOnly))
             ELSE Done(createUserDoc(col, user_id, clientData, now),
                       Resolved200(resolution_strategy, ClientWinsOnly, clientData, TRUE))
        ELSE LET serverData == col[user_id]
                 resolvedData == resolveUserConflict(clientData, serverData,
                                                     resolution_strategy, now)
             IN  IF /\ resolution_strategy = "update_data"
                    /\ clientData.email # serverData.email
                    /\ emailCheck # 0
                 THEN Done(col, ResolveError(409, "email", "unique_constraint",
                                             FourStrategies))
                 ELSE IF /\ resolution_strategy = "update_data"
                         /\ Truthy(clientData.phone_number)
                         /\ clientData.phone_number # serverData.phone_number
                         /\ phoneCheck # 0
                 THEN Done(col, ResolveError(409, "phone_number", "unique_constraint",
                                             FourStrategies))
                 ELSE Done(updateUserDoc(col, user_id, resolvedData, now),
                           Resolved200(resolution_strategy, FourStrategies,
                                       resolvedData, FALSE))

\* ------------------------------------------------------------ Registration
\* age === undefined
NoAge == -1

\* models/registrationModel.js createRegistrationDoc
createRegistrationDoc(col, id, data, now) ==
    DocSet(col, id,
        [registration_id |-> id,
         user_id |-> data.user_id,
         person_name |-> data.person_name,
         age |-> data.age,
         gender |-> data.gender,
         location_id |-> data.location_id,
         created_at |-> OrTime(data.created_at, ServerTimestamp(now)),
         updated_at |-> OrTime(data.updated_at, ServerTimestamp(now))])

\* models/registrationModel.js updateRegistrationDoc
updateRegistrationDoc(col, id, data, now) ==
    [col EXCEPT ![id] =
        [@ EXCEPT !.person_name = data.person_name,
                  !.age = data.age,
                  !.gender = data.gender,
                  !.location_id = data.location_id,
                  !.updated_at = OrTime(data.updated_at, ServerTimestamp(now))]]

\* The id of the first other registration with the triple, or 0 (null).
checkPersonIdentityExists(col, personName, age, gender, currentRegistrationId) ==
    IF ~Truthy(personName) \/ age = NoAge \/ ~Truthy(gender) THEN 0
    ELSE LET others == {x \in DOMAIN col :
                           /\ col[x].person_name = personName
                           /\ col[x].age = age
                           /\ col[x].gender = gender
                           /\ (currentRegistrationId = 0 \/ x # currentRegistrationId)}
         IN  IF others = {} THEN 0 ELSE MinId(others)

Abs(n) == IF n < 0 THEN -n ELSE n

\* An identity test that takes every holder of the triple for another person.
isNeverSamePerson(clientData, serverData) == FALSE

\* The stored document has no contact field, so contact is never compared.
isSamePersonRegistration(clientData, serverData) ==
    LET hasAge == clientData.age # NoAge /\ serverData.age # NoAge
        hasLoc == clientData.location_id # 0 /\ serverData.location_id # 0
        nameM == SameName(clientData.person_name, serverData.person_name)
        ageM == hasAge /\ Abs(clientData.age - serverData.age) <= 1
        genderM == ToLowerCase(clientData.gender) = ToLowerCase(serverData.gender)
        locM == hasLoc /\ clientData.location_id = serverData.location_id
        totalFields == 2 + B2N(hasAge) + B2N(hasLoc)
        matchCount == B2N(nameM) + B2N(ageM) + B2N(genderM) + B2N(locM)
        nameMatches ==
            /\ Truthy(clientData.person_name) /\ Truthy(serverData.person_name)
            /\ Trim(ToLowerCase(clientData.person_name))
                 = Trim(ToLowerCase(serverData.person_name))
        genderMatches ==
            /\ Truthy(clientData.gender) /\ Truthy(serverData.gender)
            /\ ToLowerCase(clientData.gender) = ToLowerCase(serverData.gender)
    IN  \/ (nameMatches /\ genderMatches /\ matchCount >= 2)
        \/ matchCount * 10 >= totalFields * 8

\* {...server, ...r, registration_id: server id, updated_at: now} as
\* updateRegistrationDoc reads it.
RegistrationMergedData(serverData, r, id, now) ==
    [registration_id |-> id,
     user_id |-> r.user_id,
     person_name |-> r.person_name,
     age |-> IF r.age # NoAge THEN r.age ELSE serverData.age,
     gender |-> Spread(serverData.gender, r.gender),
     location_id |-> IF r.location_id # 0 THEN r.location_id ELSE serverData.location_id,
     created_at |-> SpreadTime(serverData.created_at, r.created_at),
     updated_at |-> Iso(now)]

\* controllers/sync/registrationSyncController.js syncRegistrationFromClient,
\* for a body that passed its validation.
syncRegistrationFromClient(col, r, now) ==
    IF r.registration_id \in DOMAIN col
    THEN LET serverData == col[r.registration_id]
             changed == \/ r.person_name # serverData.person_name
                        \/ r.age # serverData.age
                        \/ r.gender # serverData.gender
             hit == IF changed
                    THEN checkPersonIdentityExists(col, r.person_name, r.age,
                                                   r.gender, r.registration_id)
                    ELSE 0
         IN  IF IsStale(r, serverData)
             THEN Done(col, Conflict409("updated_at", "none", FourStrategies, 0))
             ELSE IF hit # 0 /\ isSamePersonRegistration(r, col[hit])
             THEN Done(col, Conflict409("person_identity",
                            "potential_duplicate_registration", ThreeStrategies, hit))
             ELSE IF hit # 0
             THEN Done(col, Conflict409("person_identity", "unique_constraint",
                                        FourStrategies, hit))
             ELSE Done(updateRegistrationDoc(col, r.registration_id, r, now), Ok200)
    ELSE LET hit == checkPersonIdentityExists(col, r.person_name, r.age, r.gender, 0)
         IN  IF hit # 0 /\ isSamePersonRegistration(r, col[hit])
             THEN Done(updateRegistrationDoc(col, hit,
                           RegistrationMergedData(col[hit], r, hit, now), now),
                       AutoResolved200("same_person_detected", hit))
             ELSE IF hit # 0
             THEN Done(col, Conflict409("person_identity", "unique_constraint",
                                        ClientWinsOnly, hit))
             ELSE Done(createRegistrationDoc(col, r.registration_id, r, now), Ok200)

\* "\n\n[SYNC MERGE] Client update:\n"
SyncMergeSeparator ==
    <<10, 10, 91, 83, 89, 78, 67, 32, 77, 69, 82, 71, 69, 93, 32, 67, 108, 105,
      101, 110, 116, 32, 117, 112, 100, 97, 116, 101, 58, 10>>

mergeTextFields(clientText, serverText) ==
    IF clientText = NoStr THEN serverText
    ELSE IF serverText = NoStr THEN clientText
    ELSE IF clientText = serverText THEN serverText
    ELSE IF Includes(clientText, serverText) THEN clientText
    ELSE IF Includes(serverText, clientText) THEN serverText
    ELSE serverText \o SyncMergeSeparator \o clientText

RegistrationRank(status) ==
    CASE status = "pending" -> 1
      [] status = "in_progress" -> 2
      [] status = "completed" -> 3
      [] status = "transferred" -> 4
      [] status = "discharged" -> 5
      [] OTHER -> 0

calculateMostAdvancedRegistrationStatus(clientStatus, serverStatus) ==
    IF clientStatus = "" THEN serverStatus
    ELSE IF serverStatus = "" THEN clientStatus
    ELSE IF RankGt(RegistrationRank(clientStatus), RegistrationRank(serverStatus))
    THEN clientStatus ELSE serverStatus

\* resolveRegistrationConflict; status, notes and medical_history are fields
\* a record may lack.
resolveRegistrationConflict(clientData, serverData, strategy, now) ==
    LET newer == ClientNewer(clientData, serverData)
        pick(c, s, undef) == IF newer /\ c # undef THEN c ELSE s
    IN  CASE strategy = "client_wins" -> clientData
          [] strategy = "server_wins" -> serverData
          [] strategy = "update_data" ->
                [clientData EXCEPT !.person_name = serverData.person_name,
                                   !.age = serverData.age,
                                   !.gender = serverData.gender,
                                   !.updated_at = Iso(now)]
          [] OTHER ->
                [registration_id |-> pick(clientData.registration_id,
                                          serverData.registration_id, 0),
                 user_id |-> pick(clientData.user_id, serverData.user_id, 0),
                 person_name |-> pick(clientData.person_name, serverData.person_name, NoStr),
                 age |-> pick(clientData.age, serverData.age, NoAge),
                 gender |-> pick(clientData.gender, serverData.gender, NoStr),
                 location_id |-> pick(clientData.location_id, serverData.location_id, 0),
                 created_at |-> pick(clientData.created_at, serverData.created_at, NoTime),
                 medical_history |->
                     mergeTextFields(FieldStr(clientData, "medical_history"),
                                     FieldStr(serverData, "medical_history")),
                 notes |-> mergeTextFields(FieldStr(clientData, "notes"),
                                           FieldStr(serverData, "notes")),
                 status |-> calculateMostAdvancedRegistrationStatus(
                                FieldEnum(clientData, "status"),
                                FieldEnum(serverData, "status")),
                 updated_at |-> IF newer THEN clientData.updated_at
                                ELSE serverData.updated_at]

\* -------------------------------------------------------------------- Task
\* models/taskModel.js createTaskDoc: location_id is not among the fields set.
createTaskDoc(col, id, data, now) ==
    DocSet(col, id,
        [task_id |-> id,
         title |-> data.title,
         description |-> data.description,
         status |-> OrStr(data.status, "pending"),
         priority |-> OrStr(data.priority, "normal"),
         created_by |-> data.created_by,
         due_date |-> data.due_date,
         created_at |-> OrTime(data.created_at, ServerTimestamp(now)),
         updated_at |-> OrTime(data.updated_at, ServerTimestamp(now))])

\* models/taskModel.js updateTaskDoc
updateTaskDoc(col, id, data, now) ==
    [col EXCEPT ![id] =
        [@ EXCEPT !.title = data.title,
                  !.description = data.description,
                  !.status = OrStr(data.status, "pending"),
                  !.priority = OrStr(data.priority, "normal"),
                  !.due_date = data.due_date,
                  !.updated_at = OrTime(data.updated_at, ServerTimestamp(now))]]

\* col.where('title', '==', title).where('location_id', '==', location_id)
TaskTitleQuery(col, title, location_id) ==
    {x \in DOMAIN col : col[x].title = title /\ Field(col[x], "location_id") = location_id}

isSameTaskProfile(clientData, serverData) ==
    LET hasLoc == clientData.location_id # 0 /\ Field(serverData, "location_id") # 0
        hasBy == clientData.created_by # 0 /\ serverData.created_by # 0
        hasDue == clientData.due_date # 0 /\ serverData.due_date # 0
        hasPri == clientData.priority # "" /\ serverData.priority # ""
        titleM == SameName(clientData.title, serverData.title)
        locM == hasLoc /\ clientData.location_id = Field(serverData, "location_id")
        byM == hasBy /\ clientData.created_by = serverData.created_by
        dueM == hasDue /\ clientData.due_date = serverData.due_date
        priM == hasPri /\ clientData.priority = serverData.priority
        totalFields == 1 + B2N(hasLoc) + B2N(hasBy) + B2N(hasDue) + B2N(hasPri)
        matchCount == B2N(titleM) + B2N(locM) + B2N(byM) + B2N(dueM) + B2N(priM)
        titleMatches == Trim(ToLowerCase(clientData.title))
                          = Trim(ToLowerCase(serverData.title))
    IN  (titleMatches /\ matchCount >= 2) \/ matchCount * 10 >= totalFields * 8

\* {...server, ...t, task_id: server id, updated_at: now} as updateTaskDoc reads it.
TaskMergedData(serverData, t, id, now) ==
    [task_id |-> id,
     title |-> t.title,
     description |-> Spread(serverData.description, t.description),
     status |-> OrStr(t.status, serverData.status),
     priority |-> OrStr(t.priority, serverData.priority),
     created_by |-> t.created_by,
     due_date |-> IF t.due_date # 0 THEN t.due_date ELSE serverData.due_date,
     location_id |-> t.location_id,
     created_at |-> SpreadTime(serverData.created_at, t.created_at),
     updated_at |-> Iso(now)]

\* syncTaskFromClient (the controller with isSameTaskProfile), for a body that
\* passed its validation: the title/location probe comes first.
syncTaskFromClient(col, t, now) ==
    LET existingTitle == IF Truthy(t.title) /\ t.location_id # 0
                         THEN TaskTitleQuery(col, t.title, t.location_id) ELSE {}
        first == IF existingTitle = {} THEN 0 ELSE MinId(existingTitle)
    IN  IF first # 0 /\ first # t.task_id
        THEN IF isSameTaskProfile(t, col[first])
             THEN Done(updateTaskDoc(col, first, TaskMergedData(col[first], t, first, now), now),
                       AutoResolved200("same_task_detected", first))
             ELSE Done(col, Conflict409("title", "unique_constraint", FourStrategies, first))
        ELSE IF t.task_id \in DOMAIN col
        THEN IF IsStale(t, col[t.task_id])
             THEN Done(col, Conflict409("updated_at", "none", FourStrategies, t.task_id))
             ELSE Done(updateTaskDoc(col, t.task_id, t, now), Ok200)
        ELSE Done(createTaskDoc(col, t.task_id, t, now), Ok200)

TaskRank(status) ==
    CASE status = "todo" -> 1
      [] status = "in_progress" -> 2
      [] status = "review" -> 3
      [] status = "completed" -> 4
      [] status = "cancelled" -> 5
      [] OTHER -> 0

calculateMostAdvancedStatus(clientStatus, serverStatus) ==
    IF clientStatus = "" THEN serverStatus
    ELSE IF serverStatus = "" THEN clientStatus
    ELSE IF RankGt(TaskRank(clientStatus), TaskRank(serverStatus))
    THEN clientStatus ELSE serverStatus

\* resolveTaskConflict; any strategy name but the first two is a merge.
resolveTaskConflict(clientData, serverData, strategy) ==
    LET base == [task_id |-> serverData.task_id,
                 title |-> Spread(serverData.title, clientData.title),
                 description |-> Spread(serverData.description, clientData.description),
                 status |-> serverData.status,
                 priority |-> serverData.priority,
                 created_by |-> serverData.created_by,
                 due_date |-> serverData.due_date,
                 location_id |-> Field(serverData, "location_id"),
                 created_at |-> serverData.created_at,
                 updated_at |-> serverData.updated_at]
    IN  CASE strategy = "client_wins" -> clientData
          [] strategy = "server_wins" -> serverData
          [] OTHER ->
                IF ClientNewer(clientData, serverData)
                THEN [base EXCEPT
                        !.priority = OrStr(clientData.priority, serverData.priority),
                        !.due_date = IF clientData.due_date # 0 THEN clientData.due_date
                                     ELSE serverData.due_date,
                        !.status = OrStr(clientData.status, serverData.status),
                        !.location_id = IF clientData.location_id # 0
                                        THEN clientData.location_id
                                        ELSE Field(serverData, "location_id"),
                        !.updated_at = clientData.updated_at]
                ELSE [base EXCEPT
                        !.status = calculateMostAdvancedStatus(clientData.status,
                                                               serverData.status)]

\* ---------------------------------------------------------- TaskAssignment
\* models/taskAssignmentModel.js createTaskAssignmentDoc
createTaskAssignmentDoc(col, id, data, now) ==
    DocSet(col, id,
        [assignment_id |-> id,
         task_id |-> data.task_id,
         user_id |-> data.user_id,
         assigned_at |-> data.assigned_at,
         status |-> OrStr(data.status, "assigned"),
         feedback |-> data.feedback,
         created_at |-> OrTime(data.created_at, ServerTimestamp(now)),
         updated_at |-> OrTime(data.updated_at, ServerTimestamp(now))])

\* models/taskAssignmentModel.js updateTaskAssignmentDoc
updateTaskAssignmentDoc(col, id, data, now) ==
    [col EXCEPT ![id] =
        [@ EXCEPT !.task_id = data.task_id,
                  !.user_id = data.user_id,
                  !.assigned_at = data.assigned_at,
                  !.status = OrStr(data.status, "assigned"),
                  !.feedback = data.feedback,
                  !.updated_at = OrTime(data.updated_at, ServerTimestamp(now))]]

\* The identity test by the 80% score alone, without the core match.
isSameTaskAssignmentByScore(clientData, serverData) ==
    LET hasAt == clientData.assigned_at # 0 /\ serverData.assigned_at # 0
        hasSt == clientData.status # "" /\ serverData.status # ""
        totalFields == 2 + B2N(hasAt) + B2N(hasSt)
        matchCount == B2N(clientData.task_id = serverData.task_id)
                      + B2N(clientData.user_id = serverData.user_id)
                      + B2N(hasAt /\ clientData.assigned_at = serverData.assigned_at)
                      + B2N(hasSt /\ clientData.status = serverData.status)
    IN  matchCount * 10 >= totalFields * 8

\* new Date(x).toDateString() equality: the instants' days; an assigned_at is
\* a day number here.
isSameTaskAssignmentProfile(clientData, serverData) ==
    LET hasAt == clientData.assigned_at # 0 /\ serverData.assigned_at # 0
        hasSt == clientData.status # "" /\ serverData.status # ""
        taskM == clientData.task_id = serverData.task_id
        userM == clientData.user_id = serverData.user_id
        atM == hasAt /\ clientData.assigned_at = serverData.assigned_at
        stM == hasSt /\ clientData.status = serverData.status
        totalFields == 2 + B2N(hasAt) + B2N(hasSt)
        matchCount == B2N(taskM) + B2N(userM) + B2N(atM) + B2N(stM)
        coreMatch == taskM /\ userM
    IN  coreMatch \/ matchCount * 10 >= totalFields * 8

\* {...server, ...a, assignment_id: server id, updated_at: now}
TaskAssignmentMergedData(serverData, a, id, now) ==
    [assignment_id |-> id,
     task_id |-> a.task_id,
     user_id |-> a.user_id,
     assigned_at |-> IF a.assigned_at # 0 THEN a.assigned_at ELSE serverData.assigned_at,
     status |-> OrStr(a.status, serverData.status),
     feedback |-> Spread(serverData.feedback, a.feedback),
     created_at |-> SpreadTime(serverData.created_at, a.created_at),
     updated_at |-> Iso(now)]

\* controllers/sync/taskAssignmentSyncController.js syncTaskAssignmentFromClient
syncTaskAssignmentFromClient(col, a, now) ==
    LET duplicateAssignments ==
            {x \in DOMAIN col : col[x].task_id = a.task_id /\ col[x].user_id = a.user_id}
        first == IF duplicateAssignments = {} THEN 0 ELSE MinId(duplicateAssignments)
    IN  IF first # 0 /\ first # a.assignment_id
        THEN IF isSameTaskAssignmentProfile(a, col[first])
             THEN Done(updateTaskAssignmentDoc(col, first,
                           TaskAssignmentMergedData(col[first], a, first, now), now),
                       AutoResolved200("same_assignment_detected", first))
             ELSE Done(col, Conflict409("task_id_user_id", "unique_constraint",
                                        FourStrategies, first))
        ELSE IF a.assignment_id \in DOMAIN col
        THEN IF IsStale(a, col[a.assignment_id])
             THEN Done(col, Conflict409("updated_at", "none", FourStrategies,
                                        a.assignment_id))
             ELSE Done(updateTaskAssignmentDoc(col, a.assignment_id, a, now), Ok200)
        ELSE Done(createTaskAssignmentDoc(col, a.assignment_id, a, now), Ok200)

AssignmentRank(status) ==
    CASE status = "assigned" -> 1
      [] status = "accepted" -> 2
      [] status = "in_progress" -> 3
      [] status = "completed" -> 4
      [] status = "rejected" -> 5
      [] OTHER -> 0

calculateMostAdvancedAssignmentStatus(clientStatus, serverStatus) ==
    IF clientStatus = "" THEN serverStatus
    ELSE IF serverStatus = "" THEN clientStatus
    ELSE IF RankGt(AssignmentRank(clientStatus), AssignmentRank(serverStatus))
    THEN clientStatus ELSE serverStatus

\* resolveTaskAssignmentConflict; notes and completed_at are fields a record
\* may lack.
resolveTaskAssignmentConflict(clientData, serverData, strategy) ==
    LET base == [assignment_id |-> serverData.assignment_id,
                 task_id |-> serverData.task_id,
                 user_id |-> serverData.user_id,
                 assigned_at |-> serverData.assigned_at,
                 status |-> serverData.status,
                 feedback |-> serverData.feedback,
                 notes |-> Spread(FieldStr(serverData, "notes"),
                                  FieldStr(clientData, "notes")),
                 completed_at |-> Field(serverData, "completed_at"),
                 created_at |-> serverData.created_at,
                 updated_at |-> serverData.updated_at]
    IN  CASE strategy = "client_wins" -> clientData
          [] strategy = "server_wins" -> serverData
          [] OTHER ->
                IF ClientNewer(clientData, serverData)
                THEN [base EXCEPT
                        !.status = OrStr(clientData.status, serverData.status),
                        !.completed_at = IF Field(clientData, "completed_at") # 0
                                         THEN clientData.completed_at
                                         ELSE Field(serverData, "completed_at"),
                        !.updated_at = clientData.updated_at]
                ELSE [base EXCEPT
                        !.status = calculateMostAdvancedAssignmentStatus(
                                       clientData.status, serverData.status)]

\* ---------------------------------------------------------------- Location
\* Coordinates are in thousandths of a degree; NoCoord is undefined.
NoCoord == 999999

\* models/locationModel.js createLocationDoc
createLocationDoc(col, id, data, now) ==
    DocSet(col, id,
        [location_id |-> id,
         user_id |-> data.user_id,
         name |-> data.name,
         type |-> data.type,
         latitude |-> data.latitude,
         longitude |-> data.longitude,
         description |-> data.description,
         created_at |-> OrTime(data.created_at, ServerTimestamp(now)),
         updated_at |-> OrTime(data.updated_at, ServerTimestamp(now))])

\* models/locationModel.js updateLocationDoc
updateLocationDoc(col, id, data, now) ==
    [col EXCEPT ![id] =
        [@ EXCEPT !.user_id = data.user_id,
                  !.name = data.name,
                  !.type = data.type,
                  !.latitude = data.latitude,
                  !.longitude = data.longitude,
                  !.description = data.description,
                  !.updated_at = OrTime(data.updated_at, ServerTimestamp(now))]]

\* The id of the first other location with the name, or 0 (null).
checkLocationNameExists(col, name, currentLocationId) ==
    IF ~Truthy(name) THEN 0
    ELSE LET others == {x \in DOMAIN col :
                           /\ col[x].name = name
                           /\ (currentLocationId = 0 \/ x # currentLocationId)}
         IN  IF others = {} THEN 0 ELSE MinId(others)

\* A number is truthy when it is neither undefined nor 0.
CoordTruthy(x) == x # NoCoord /\ x # 0

\* The stored document has no address field, so address is never compared.
isSameLocationPlace(clientData, serverData) ==
    LET hasType == Truthy(clientData.type) /\ Truthy(serverData.type)
        hasLat == CoordTruthy(clientData.latitude) /\ CoordTruthy(serverData.latitude)
        hasLon == CoordTruthy(clientData.longitude) /\ CoordTruthy(serverData.longitude)
        nameM == SameName(clientData.name, serverData.name)
        typeM == hasType /\ ToLowerCase(clientData.type) = ToLowerCase(serverData.type)
        latM == hasLat /\ Abs(clientData.latitude - serverData.latitude) <= 1
        lonM == hasLon /\ Abs(clientData.longitude - serverData.longitude) <= 1
        totalFields == 1 + B2N(hasType) + B2N(hasLat) + B2N(hasLon)
        matchCount == B2N(nameM) + B2N(typeM) + B2N(latM) + B2N(lonM)
        nameMatches == Trim(ToLowerCase(clientData.name)) = Trim(ToLowerCase(serverData.name))
    IN  (nameMatches /\ matchCount >= 2) \/ matchCount * 10 >= totalFields * 8

\* {...server, ...l, location_id: server id, updated_at: now}
LocationMergedData(serverData, l, id, now) ==
    [location_id |-> id,
     user_id |-> l.user_id,
     name |-> l.name,
     type |-> Spread(serverData.type, l.type),
     latitude |-> IF l.latitude # NoCoord THEN l.latitude ELSE serverData.latitude,
     longitude |-> IF l.longitude # NoCoord THEN l.longitude ELSE serverData.longitude,
     description |-> Spread(serverData.description, l.description),
     created_at |-> SpreadTime(serverData.created_at, l.created_at),
     updated_at |-> Iso(now)]

\* syncLocationFromClient (the controller with isSameLocationPlace), for a body
\* that passed its validation.
syncLocationFromClient(col, l, now) ==
    IF l.location_id \in DOMAIN col
    THEN LET serverData == col[l.location_id]
             hit == IF l.name # serverData.name
                    THEN checkLocationNameExists(col, l.name, l.location_id) ELSE 0
         IN  IF IsStale(l, serverData)
             THEN Done(col, Conflict409("updated_at", "none", FourStrategies, l.location_id))
             ELSE IF hit # 0 /\ isSameLocationPlace(l, col[hit])
             THEN Done(col, Conflict409("name", "potential_duplicate_location",
                                        ThreeStrategies, hit))
             ELSE IF hit # 0
             THEN Done(col, Conflict409("name", "unique_constraint", FourStrategies, hit))
             ELSE Done(updateLocationDoc(col, l.location_id, l, now), Ok200)
    ELSE LET hit == checkLocationNameExists(col, l.name, 0)
         IN  IF hit # 0 /\ isSameLocationPlace(l, col[hit])
             THEN Done(updateLocationDoc(col, hit,
                           LocationMergedData(col[hit], l, hit, now), now),
                       AutoResolved200("same_location_detected", hit))
             ELSE IF hit # 0
             THEN Done(col, Conflict409("name", "unique_constraint", ClientWinsOnly, hit))
             ELSE Done(createLocationDoc(col, l.location_id, l, now), Ok200)

\* ------------------------------------------------------------------ Supply
\* models/supplyModel.js createSupplyDoc (the model with barcode and sku)
createSupplyDoc(col, id, data, now) ==
    DocSet(col, id,
        [supply_id |-> id,
         user_id |-> data.user_id,
         item_name |-> data.item_name,
         quantity |-> data.quantity,
         location_id |-> data.location_id,
         status |-> OrStr(data.status, "active"),
         barcode |-> data.barcode,
         sku |-> data.sku,
         created_at |-> OrTime(data.created_at, ServerTimestamp(now)),
         updated_at |-> OrTime(data.updated_at, ServerTimestamp(now))])

\* models/supplyModel.js updateSupplyDoc
updateSupplyDoc(col, id, data, now) ==
    [col EXCEPT ![id] =
        [@ EXCEPT !.item_name = data.item_name,
                  !.quantity = data.quantity,
                  !.location_id = data.location_id,
                  !.status = OrStr(data.status, "active"),
                  !.barcode = data.barcode,
                  !.sku = data.sku,
                  !.updated_at = OrTime(data.updated_at, ServerTimestamp(now))]]

\* controllers/sync/supplySyncController.js syncSupplyFromClient
syncSupplyFromClient(col, s, now) ==
    IF s.supply_id \in DOMAIN col
    THEN IF IsStale(s, col[s.supply_id])
         THEN Done(col, Conflict409("supply_id", "none", <<>>, 0))
         ELSE Done(updateSupplyDoc(col, s.supply_id, s, now), Ok200)
    ELSE Done(createSupplyDoc(col, s.supply_id, s, now), Ok200)

\* ------------------------------------------------------------------- Alert
\* models/alertModel.js createAlertDoc
createAlertDoc(col, id, data, now) ==
    DocSet(col, id,
        [alert_id |-> id,
         user_id |-> data.user_id,
         type |-> data.type,
         location_id |-> data.location_id,
         description |-> data.description,
         priority |-> OrStr(data.priority, "normal"),
         sent_via |-> OrStr(data.sent_via, "app"),
         created_at |-> OrTime(data.created_at, ServerTimestamp(now)),
         updated_at |-> OrTime(data.updated_at, ServerTimestamp(now))])

\* models/alertModel.js updateAlertDoc
updateAlertDoc(col, id, data, now) ==
    [col EXCEPT ![id] =
        [@ EXCEPT !.user_id = data.user_id,
                  !.type = data.type,
                  !.location_id = data.location_id,
                  !.description = data.description,
                  !.priority = OrStr(data.priority, "normal"),
                  !.sent_via = OrStr(data.sent_via, "app"),
                  !.updated_at = OrTime(data.updated_at, ServerTimestamp(now))]]

\* syncAlertFromClient without its staleness test.
syncAlertUnchecked(col, alert, now) ==
    IF alert.alert_id \in DOMAIN col
    THEN Done(updateAlertDoc(col, alert.alert_id, alert, now), Ok200)
    ELSE Done(createAlertDoc(col, alert.alert_id, alert, now), Ok200)

\* controllers/sync/alertSyncController.js syncAlertFromClient
syncAlertFromClient(col, alert, now) ==
    IF alert.alert_id \in DOMAIN col
    THEN IF IsStale(alert, col[alert.alert_id])
         THEN Done(col, Conflict409("alert_id", "none", <<>>, 0))
         ELSE Done(updateAlertDoc(col, alert.alert_id, alert, now), Ok200)
    ELSE Done(createAlertDoc(col, alert.alert_id, alert, now), Ok200)

\* ------------------------------------------------- resolve-conflict handlers
\* controllers/sync/registrationSyncController.js resolveRegistrationSyncConflict
resolveRegistrationSyncConflict(col, registration_id, resolution_strategy, clientData, now) ==
    LET identityCheck ==
            checkPersonIdentityExists(col, clientData.person_name, clientData.age,
                                      clientData.gender, registration_id)
    IN  IF registration_id \notin DOMAIN col
        THEN IF resolution_strategy \in {"server_wins", "update_data"}
             THEN Done(col, ResolveError(400, "none", "none", ClientWinsOnly))
             ELSE IF /\ Truthy(clientData.person_name)
                     /\ clientData.age # NoAge
                     /\ Truthy(clientData.gender)
                     /\ identityCheck # 0
             THEN Done(col, ResolveError(409, "person_identity", "unique_constraint",
                                         ClientWinsOnly))
             ELSE Done(createRegistrationDoc(col, registration_id, clientData, now),
                       Resolved200(resolution_strategy, ClientWinsOnly, clientData, TRUE))
        ELSE LET serverData == col[registration_id]
                 resolvedData == resolveRegistrationConflict(clientData, serverData,
                                                             resolution_strategy, now)
             IN  IF /\ resolution_strategy = "update_data"
                    /\ \/ clientData.person_name # serverData.person_name
                       \/ clientData.age # serverData.age
                       \/ clientData.gender # serverData.gender
                    /\ identityCheck # 0
                 THEN Done(col, ResolveError(409, "person_identity", "unique_constraint",
                                             FourStrategies))
                 ELSE Done(updateRegistrationDoc(col, registration_id, resolvedData, now),
                           Resolved200(resolution_strategy, FourStrategies,
                                       resolvedData, FALSE))

\* resolveLocationConflict with update_data keeping the client's name.
resolveLocationKeepClient(clientData, serverData, strategy, now) ==
    IF strategy = "server_wins" THEN serverData
    ELSE [clientData EXCEPT !.updated_at = Iso(now)]

\* resolveLocationConflict; any strategy name but the first three is a merge,
\* which takes a field from the client when the client is newer and has it.
resolveLocationConflict(clientData, serverData, strategy, now) ==
    LET newer == ClientNewer(clientData, serverData)
        pick(c, s, undef) == IF newer /\ c # undef THEN c ELSE s
    IN  CASE strategy = "client_wins" -> clientData
          [] strategy = "server_wins" -> serverData
          [] strategy = "update_data" ->
                [clientData EXCEPT !.name = serverData.name,
                                   !.updated_at = Iso(now)]
          [] OTHER ->
                [location_id |-> pick(clientData.location_id, serverData.location_id, 0),
                 user_id |-> pick(clientData.user_id, serverData.user_id, 0),
                 name |-> pick(clientData.name, serverData.name, NoStr),
                 type |-> pick(clientData.type, serverData.type, NoStr),
                 latitude |-> pick(clientData.latitude, serverData.latitude, NoCoord),
                 longitude |-> pick(clientData.longitude, serverData.longitude, NoCoord),
                 description |-> pick(clientData.description, serverData.description, NoStr),
                 created_at |-> pick(clientData.created_at, serverData.created_at, NoTime),
                 updated_at |-> IF newer THEN clientData.updated_at
                                ELSE serverData.updated_at]

\* resolveLocationSyncConflict
resolveLocationSyncConflict(col, location_id, resolution_strategy, clientData, now) ==
    LET nameCheck == checkLocationNameExists(col, clientData.name, location_id)
    IN  IF location_id \notin DOMAIN col
        THEN IF resolution_strategy \in {"server_wins", "update_data"}
             THEN Done(col, ResolveError(400, "none", "none", ClientWinsOnly))
             ELSE IF nameCheck # 0
             THEN Done(col, ResolveError(409, "name", "unique_constraint", ClientWinsOnly))
             ELSE Done(createLocationDoc(col, location_id, clientData, now),
                       Resolved200(resolution_strategy, ClientWinsOnly, clientData, TRUE))
        ELSE LET serverData == col[location_id]
                 resolvedData == resolveLocationConflict(clientData, serverData,
                                                         resolution_strategy, now)
             IN  IF /\ resolution_strategy = "update_data"
                    /\ clientData.name # serverData.name
                    /\ nameCheck # 0
                 THEN Done(col, ResolveError(409, "name", "unique_constraint",
                                             FourStrategies))
                 ELSE Done(updateLocationDoc(col, location_id, resolvedData, now),
                           Resolved200(resolution_strategy, FourStrategies,
                                       resolvedData, FALSE))

\* resolveTaskSyncConflict
resolveTaskSyncConflict(col, task_id, resolution_strategy, clientData, now) ==
    IF task_id \notin DOMAIN col
    THEN IF resolution_strategy \in {"server_wins", "update_data"}
         THEN Done(col, ResolveError(400, "none", "none", ClientWinsOnly))
         ELSE Done(createTaskDoc(col, task_id, clientData, now),
                   Resolved200(resolution_strategy, ClientWinsOnly, clientData, TRUE))
    ELSE LET resolvedData == resolveTaskConflict(clientData, col[task_id],
                                                 resolution_strategy)
         IN  IF \A i \in DOMAIN FourStrategies : FourStrategies[i] # resolution_strategy
             THEN Done(col, ResolveError(400, "none", "none", FourStrategies))
             ELSE Done(updateTaskDoc(col, task_id, resolvedData, now),
                       Resolved200(resolution_strategy, FourStrategies,
                                   resolvedData, FALSE))

\* controllers/sync/taskAssignmentSyncController.js resolveTaskAssignmentSyncConflict
resolveTaskAssignmentSyncConflict(col, assignment_id, resolution_strategy, clientData, now) ==
    IF assignment_id \notin DOMAIN col
    THEN IF resolution_strategy \in {"server_wins", "update_data"}
         THEN Done(col, ResolveError(400, "none", "none", ClientWinsOnly))
         ELSE Done(createTaskAssignmentDoc(col, assignment_id, clientData, now),
                   Resolved200(resolution_strategy, ClientWinsOnly, clientData, TRUE))
    ELSE LET resolvedData == resolveTaskAssignmentConflict(clientData, col[assignment_id],
                                                           resolution_strategy)
         IN  IF \A i \in DOMAIN FourStrategies : FourStrategies[i] # resolution_strategy
             THEN Done(col, ResolveError(400, "none", "none", FourStrategies))
             ELSE Done(updateTaskAssignmentDoc(col, assignment_id, resolvedData, now),
                       Resolved200(resolution_strategy, FourStrategies,
                                   resolvedData, FALSE))

\* quantity: null
NullQuantity == -1

\* The number Math.min makes of a quantity: null counts as 0.
ToNumber(q) == IF q = NullQuantity THEN 0 ELSE q

\* resolveSupplyConflict whose client_wins and server_wins are exchanged.
resolveSupplySwapped(clientData, serverData, strategy) ==
    IF strategy = "client_wins" THEN serverData ELSE clientData

\* controllers/sync/supplySyncController.js resolveSupplyConflict: the merge of
\* a client that is not newer keeps the lower quantity.
resolveSupplyConflict(clientData, serverData, strategy) ==
    CASE strategy = "client_wins" -> clientData
      [] strategy = "server_wins" -> serverData
      [] OTHER ->
            IF ClientNewer(clientData, serverData)
            THEN [serverData EXCEPT !.item_name = clientData.item_name,
                                    !.quantity = clientData.quantity,
                                    !.location_id = clientData.location_id,
                                    !.updated_at = clientData.updated_at]
            ELSE [serverData EXCEPT
                     !.quantity = IF ToNumber(clientData.quantity)
                                       < ToNumber(serverData.quantity)
                                  THEN ToNumber(clientData.quantity)
                                  ELSE ToNumber(serverData.quantity)]

\* resolveSupplySyncConflict: its responses carry no allowed_strategies.
resolveSupplySyncConflict(col, supply_id, resolution_strategy, clientData, now) ==
    IF resolution_strategy \notin {"client_wins", "server_wins", "merge"}
    THEN Done(col, ResolveError(400, "none", "none", <<>>))
    ELSE IF supply_id \notin DOMAIN col
    THEN Done(col, ResolveError(404, "none", "none", <<>>))
    ELSE LET resolvedData == resolveSupplyConflict(clientData, col[supply_id],
                                                   resolution_strategy)
         IN  Done(updateSupplyDoc(col, supply_id, resolvedData, now),
                  Resolved200(resolution_strategy, <<>>, resolvedData, FALSE))

\* Math.max(a ? 1 : 0, b ? 1 : 0) on is_active values: a number, written "1"
\* or "0" beside the booleans "true" and "false" ("" is undefined).
MaxActive(a, b) == IF a = "true" \/ b = "true" THEN "1" ELSE "0"

\* controllers/sync/alertSyncController.js resolveAlertConflict: of the fields
\* the merge names, a stored alert has location_id only; message, severity
\* and is_active are fields a record may lack.
resolveAlertConflict(clientData, serverData, strategy) ==
    LET messageC == FieldStr(clientData, "message")
        messageS == FieldStr(serverData, "message")
        activeC == FieldEnum(clientData, "is_active")
        activeS == FieldEnum(serverData, "is_active")
        base == [f \in DOMAIN serverData \cup {"message", "severity", "is_active"} |->
                    CASE f \in DOMAIN serverData -> serverData[f]
                      [] f = "message" -> NoStr
                      [] OTHER -> ""]
    IN  CASE strategy = "client_wins" -> clientData
          [] strategy = "server_wins" -> serverData
          [] OTHER ->
                IF ClientNewer(clientData, serverData)
                THEN [base EXCEPT
                        !.message = Spread(messageS, messageC),
                        !.severity = OrStr(FieldEnum(clientData, "severity"),
                                           FieldEnum(serverData, "severity")),
                        !.location_id = clientData.location_id,
                        !.is_active = OrStr(activeC, activeS),
                        !.updated_at = clientData.updated_at]
                ELSE [base EXCEPT
                        !.message = Spread(messageS, messageC),
                        !.is_active = IF activeC # "" THEN MaxActive(activeC, activeS)
                                      ELSE activeS]

\* resolveAlertSyncConflict
resolveAlertSyncConflict(col, alert_id, resolution_strategy, clientData, now) ==
    IF resolution_strategy \notin {"client_wins", "server_wins", "merge"}
    THEN Done(col, ResolveError(400, "none", "none", <<>>))
    ELSE IF alert_id \notin DOMAIN col
    THEN Done(col, ResolveError(404, "none", "none", <<>>))
    ELSE LET resolvedData == resolveAlertConflict(clientData, col[alert_id],
                                                  resolution_strategy)
         IN  Done(updateAlertDoc(col, alert_id, resolvedData, now),
                  Resolved200(resolution_strategy, <<>>, resolvedData, FALSE))

\* -------------------------------------------------------------------- Auth
\* controllers/authController.js.  The AuthStore maps a uid to the email and
\* password of the account; no handler below reads its displayName or claims.
\* The clock of these handlers counts minutes.
OTP_EXPIRATION_MINUTES == 10

\* /^[^\s@]+@[^\s@]+\.[^\s@]+$/
isValidEmail(email) ==
    \E i, j \in 1..Len(email) :
        /\ 1 < i /\ i + 1 < j /\ j < Len(email)
        /\ email[i] = 64
        /\ email[j] = 46
        /\ \A k \in 1..Len(email) : email[k] # 32 /\ (email[k] = 64 => k = i)

\* email?.trim().toLowerCase()
NormalizeEmail(email) == ToLowerCase(Trim(email))

\* parseInt of a string: the number its leading decimal digits spell after
\* leading white space, NaN when there is none.
RECURSIVE DigitsValue(_, _)
DigitsValue(s, acc) ==
    IF s = <<>> \/ Head(s) < 48 \/ Head(s) > 57 THEN acc
    ELSE DigitsValue(Tail(s), acc * 10 + (Head(s) - 48))

ParseInt(s) ==
    LET t == TrimLeft(s)
    IN  IF t = <<>> \/ Head(t) < 48 \/ Head(t) > 57 THEN NaN ELSE DigitsValue(t, 0)

\* The response of an auth handler.
AuthRes(status, message) == [status |-> status, message |-> message]

\* A delete that leaves the document in place.
DocKeep(col, id) == col

\* col.doc(id).delete()
DocDelete(col, id) == [x \in DOMAIN col \ {id} |-> col[x]]

\* forgotPassword: otp is the value of crypto.randomInt, sent whether the mail
\* transport delivered the message.
forgotPassword(col, otpsCol, email, now, otp, sent) ==
    LET normalizedEmail == NormalizeEmail(email)
    IN  IF ~Truthy(normalizedEmail) \/ ~isValidEmail(normalizedEmail)
        THEN [otps |-> otpsCol, res |-> AuthRes(400, "valid_email_required")]
        ELSE IF \A x \in DOMAIN col : col[x].email # normalizedEmail
        THEN [otps |-> otpsCol, res |-> AuthRes(404, "user_not_found")]
        ELSE [otps |-> DocSet(otpsCol, normalizedEmail,
                              [email |-> normalizedEmail, otp |-> otp,
                               expiresAt |-> now + OTP_EXPIRATION_MINUTES]),
              res |-> IF sent THEN AuthRes(200, "otp_sent")
                      ELSE AuthRes(500, "failed_to_send")]

\* verifyOtp
verifyOtp(otpsCol, email, otp, now) ==
    LET normalizedEmail == NormalizeEmail(email)
    IN  IF ~Truthy(normalizedEmail) \/ ~Truthy(otp)
        THEN AuthRes(400, "required")
        ELSE IF normalizedEmail \notin DOMAIN otpsCol
        THEN AuthRes(400, "no_otp_found")
        ELSE IF ParseInt(otp) # otpsCol[normalizedEmail].otp
        THEN AuthRes(400, "invalid_otp")
        ELSE IF otpsCol[normalizedEmail].expiresAt < now
        THEN AuthRes(400, "expired")
        ELSE AuthRes(200, "verified")

\* admin.auth().createUser: a uid no account and no profile has.
FreshUid(col, authStore) ==
    LET used == DOMAIN col \cup DOMAIN authStore
    IN  CHOOSE n \in 1..(Cardinality(used) + 1) : n \notin used

\* resetPassword that re-keys the profile without deleting the old document.
resetPasswordKeepOld(col, authStore, otpsCol, body, now, cancelled) ==
    LET normalizedEmail == NormalizeEmail(body.email)
        found == {x \in DOMAIN col : col[x].email = normalizedEmail}
        byEmail == {a \in DOMAIN authStore : authStore[a].email = normalizedEmail}
        uid == MinId(found)
        actualUid == IF uid \in DOMAIN authStore \/ byEmail = {} THEN uid
                     ELSE MinId(byEmail)
    IN  IF found = {} \/ Len(body.password) < 6 \/ body.password # body.confirm_password
        THEN [col |-> col, auth |-> authStore, otps |-> otpsCol,
              res |-> AuthRes(400, "rejected")]
        ELSE [col |-> DocSet(col, actualUid, col[uid]),
              auth |-> DocSet(authStore, actualUid,
                              [email |-> normalizedEmail, password |-> body.password]),
              otps |-> otpsCol,
              res |-> AuthRes(200, "password_reset")]

\* resetPassword.  With cancelled, the run of a request that re-keys the
\* profile stops after the delete of the old document and sends no response.
resetPassword(col, authStore, otpsCol, body, now, cancelled) ==
    LET normalizedEmail == NormalizeEmail(body.email)
        found == {x \in DOMAIN col : col[x].email = normalizedEmail}
        uid == MinId(found)
        userData == col[uid]
        known == uid \in DOMAIN authStore
        byEmail == {a \in DOMAIN authStore : authStore[a].email = normalizedEmail}
        actualUid == IF known THEN uid
                     ELSE IF byEmail # {} THEN MinId(byEmail)
                     ELSE FreshUid(col, authStore)
        authAfter == IF ~known /\ byEmail = {}
                     THEN DocSet(authStore, actualUid,
                                 [email |-> normalizedEmail, password |-> body.password])
                     ELSE authStore
        rekeyed == IF known THEN col
                   ELSE DocSet(DocDelete(col, uid), actualUid,
                               [userData EXCEPT !.updated_at = ServerTimestamp(now)])
        unchanged(response) ==
            [col |-> col, auth |-> authStore, otps |-> otpsCol, res |-> response]
    IN  IF \/ ~Truthy(normalizedEmail)
           \/ ~Truthy(body.password)
           \/ ~Truthy(body.confirm_password)
        THEN unchanged(AuthRes(400, "required"))
        ELSE IF Len(body.password) < 6
        THEN unchanged(AuthRes(400, "too_short"))
        ELSE IF body.password # body.confirm_password
        THEN unchanged(AuthRes(400, "no_match"))
        ELSE IF found = {}
        THEN unchanged(AuthRes(404, "user_not_found"))
        ELSE IF cancelled /\ ~known
        THEN [col |-> DocDelete(col, uid), auth |-> authAfter, otps |-> otpsCol,
              res |-> AuthRes(0, "cancelled")]
        ELSE [col |-> [rekeyed EXCEPT ![actualUid].updated_at = ServerTimestamp(now)],
              auth |-> [authAfter EXCEPT ![actualUid].password = body.password],
              otps |-> DocDelete(otpsCol, normalizedEmail),
              res |-> AuthRes(200, "password_reset")]

\* ['admin', 'fieldworker', 'volunteer', 'coordinator']
allowedRoles == {"admin", "fieldworker", "volunteer", "coordinator"}

\* /^[0-9\-\+]{9,15}$/
isValidPhone(phone) ==
    /\ Len(phone) \in 9..15
    /\ \A i \in 1..Len(phone) : phone[i] \in (48..57) \cup {43, 45}

\* registerUser: the account is created first, then the profile under the
\* account's uid, with no created_at and no updated_at in the data handed to
\* createUserDoc.  A role is a lower-case name here.
registerUser(col, authStore, body, now) ==
    LET normalizedEmail == NormalizeEmail(body.email)
        trimmedName == Trim(body.name)
        trimmedPhone == Trim(body.phone_number)
        uid == FreshUid(col, authStore)
        unchanged(response) == [col |-> col, auth |-> authStore, res |-> response]
    IN  IF \/ ~Truthy(normalizedEmail) \/ ~Truthy(body.password)
           \/ ~Truthy(trimmedName) \/ body.role = ""
        THEN unchanged(AuthRes(400, "required"))
        ELSE IF ~isValidEmail(normalizedEmail)
        THEN unchanged(AuthRes(400, "invalid_email"))
        ELSE IF Len(body.password) < 6
        THEN unchanged(AuthRes(400, "too_short"))
        ELSE IF body.role \notin allowedRoles
        THEN unchanged(AuthRes(400, "invalid_role"))
        ELSE IF Truthy(body.phone_number) /\ ~isValidPhone(trimmedPhone)
        THEN unchanged(AuthRes(400, "invalid_phone"))
        ELSE IF \E a \in DOMAIN authStore : authStore[a].email = normalizedEmail
        THEN unchanged(AuthRes(409, "email_already_exists"))
        ELSE [col |-> createUserDoc(col, uid,
                          [name |-> trimmedName, email |-> normalizedEmail,
                           role |-> body.role, phone_number |-> trimmedPhone,
                           image_url |-> NoStr, created_at |-> NoTime,
                           updated_at |-> NoTime], now),
              auth |-> DocSet(authStore, uid,
                              [email |-> normalizedEmail, password |-> body.password]),
              res |-> AuthRes(201, "registered")]

\* ------------------------------------------------------------ request bodies
\* "ana", "bob"
NameAna == <<97, 110, 97>>
NameBob == <<98, 111, 98>>
\* "a@x.io", "b@x.io"
EmailA == <<97, 64, 120, 46, 105, 111>>
EmailB == <<98, 64, 120, 46, 105, 111>>
\* "5550100001"
PhoneA == <<53, 53, 53, 48, 49, 48, 48, 48, 48, 49>>
\* "male"
Male == <<109, 97, 108, 101>>
\* "clinic", "hospital"
Clinic == <<99, 108, 105, 110, 105, 99>>
Hospital == <<104, 111, 115, 112, 105, 116, 97, 108>>

UserProfiles ==
    {[name |-> NameAna, role |-> "volunteer"], [name |-> NameBob, role |-> "admin"]}

\* The bodies of POST /api/sync/user that pass validation.
UserBodies(ids, emails, phones) ==
    {[user_id |-> i, name |-> p.name, email |-> e, phone_number |-> ph,
      image_url |-> NoStr, role |-> p.role, created_at |-> Iso(1), updated_at |-> u] :
        i \in ids, p \in UserProfiles, e \in emails, ph \in phones, u \in IsoTimes}

\* The bodies of POST /api/sync/registration: the whole triple is present.
RegistrationBodies(ids) ==
    {[registration_id |-> i, user_id |-> 1, person_name |-> n, age |-> a,
      gender |-> Male, location_id |-> l, created_at |-> Iso(1), updated_at |-> u] :
        i \in ids, n \in {NameAna, NameBob}, a \in {40}, l \in {1, 2}, u \in IsoTimes}

\* The bodies of POST /api/sync/location: type and coordinates are present.
LocationBodies(ids) ==
    {[location_id |-> i, user_id |-> 1, name |-> n, type |-> t, latitude |-> 1000,
      longitude |-> 2000, description |-> NoStr, created_at |-> Iso(1),
      updated_at |-> u] :
        i \in ids, n \in {NameAna, NameBob}, t \in {Clinic, Hospital}, u \in IsoTimes}

\* The bodies of POST /api/sync/task.
TaskBodies(ids, statuses) ==
    {[task_id |-> i, title |-> n, description |-> NoStr, status |-> st,
      priority |-> "normal", created_by |-> 1, due_date |-> 1, location_id |-> l,
      created_at |-> Iso(1), updated_at |-> u] :
        i \in ids, n \in {NameAna}, st \in statuses, l \in {0, 1},
        u \in IsoTimes}

\* The bodies of POST /api/sync/task-assignment.
TaskAssignmentBodies(ids, statuses) ==
    {[assignment_id |-> i, task_id |-> t, user_id |-> 1, assigned_at |-> 1,
      status |-> st, feedback |-> NoStr, created_at |-> Iso(1), updated_at |-> u] :
        i \in ids, t \in {1, 2}, st \in statuses, u \in IsoTimes}

\* The bodies of POST /api/sync/supply.
SupplyBodies(ids) ==
    {[supply_id |-> i, user_id |-> 1, item_name |-> NameAna, quantity |-> q,
      location_id |-> 1, status |-> "active", barcode |-> NoStr, sku |-> NoStr,
      created_at |-> Iso(1), updated_at |-> u] :
        i \in ids, q \in {3, 5}, u \in IsoTimes}

\* The bodies of POST /api/sync/alert.
AlertBodies(ids) ==
    {[alert_id |-> i, user_id |-> 1, type |-> Clinic, location_id |-> 1,
      description |-> d, priority |-> "high", sent_via |-> "app",
      created_at |-> Iso(1), updated_at |-> u] :
        i \in ids, d \in {NameAna, NameBob}, u \in IsoTimes}

\* ------------------------------------------------------------------ actions
Kinds == {"user", "registration", "location", "task", "task_assignment",
          "supply", "alert"}

NoReq == [op |-> "none"]

\* A sync request of kind k with body b.
SyncReq(k, b, id) == [op |-> "sync", kind |-> k, id |-> id, body |-> b]

\* The bookkeeping of one handled request: the server clock has moved to now.
Handled(r, out, now) ==
    /\ req' = r
    /\ res' = out.res
    /\ clock' = now
    /\ turn' = 1 - turn
    /\ UNCHANGED <<kind, proc, auth, otps, tokens,
                   verified>>

\* POST /api/sync/user
SyncUser(bodies) ==
    /\ kind = "user"
    /\ \E b \in bodies, now \in clock..MaxT :
          LET out == syncUserFromClient(users, b, now) IN
          /\ users' = out.col
          /\ Handled(SyncReq("user", b, b.user_id), out, now)
    /\ UNCHANGED <<registrations, locations, tasks, task_assignments, supplies, alerts>>

\* POST /api/sync/registration
SyncRegistration(bodies) ==
    /\ kind = "registration"
    /\ \E b \in bodies, now \in clock..MaxT :
          LET out == syncRegistrationFromClient(registrations, b, now) IN
          /\ registrations' = out.col
          /\ Handled(SyncReq("registration", b, b.registration_id), out, now)
    /\ UNCHANGED <<users, locations, tasks, task_assignments, supplies, alerts>>

\* POST /api/sync/location
SyncLocation(bodies) ==
    /\ kind = "location"
    /\ \E b \in bodies, now \in clock..MaxT :
          LET out == syncLocationFromClient(locations, b, now) IN
          /\ locations' = out.col
          /\ Handled(SyncReq("location", b, b.location_id), out, now)
    /\ UNCHANGED <<users, registrations, tasks, task_assignments, supplies, alerts>>

\* POST /api/sync/task
SyncTask(bodies) ==
    /\ kind = "task"
    /\ \E b \in bodies, now \in clock..MaxT :
          LET out == syncTaskFromClient(tasks, b, now) IN
          /\ tasks' = out.col
          /\ Handled(SyncReq("task", b, b.task_id), out, now)
    /\ UNCHANGED <<users, registrations, locations, task_assignments, supplies, alerts>>

\* POST /api/sync/task-assignment
SyncTaskAssignment(bodies) ==
    /\ kind = "task_assignment"
    /\ \E b \in bodies, now \in clock..MaxT :
          LET out == syncTaskAssignmentFromClient(task_assignments, b, now) IN
          /\ task_assignments' = out.col
          /\ Handled(SyncReq("task_assignment", b, b.assignment_id), out, now)
    /\ UNCHANGED <<users, registrations, locations, tasks, supplies, alerts>>

\* POST /api/sync/supply
SyncSupply(bodies) ==
    /\ kind = "supply"
    /\ \E b \in bodies, now \in clock..MaxT :
          LET out == syncSupplyFromClient(supplies, b, now) IN
          /\ supplies' = out.col
          /\ Handled(SyncReq("supply", b, b.supply_id), out, now)
    /\ UNCHANGED <<users, registrations, locations, tasks, task_assignments, alerts>>

\* POST /api/sync/alert
SyncAlert(bodies) ==
    /\ kind = "alert"
    /\ \E b \in bodies, now \in clock..MaxT :
          LET out == syncAlertFromClient(alerts, b, now) IN
          /\ alerts' = out.col
          /\ Handled(SyncReq("alert", b, b.alert_id), out, now)
    /\ UNCHANGED <<users, registrations, locations, tasks, task_assignments, supplies>>

\* A resolve-conflict request of kind k: {id, resolution_strategy, clientData}.
ResolveReq(k, id, strategy, b) ==
    [op |-> "resolve", kind |-> k, id |-> id, strategy |-> strategy, body |-> b]

\* The strategy names a request may carry: the four of the handlers, the
\* Supply-only sum_quantities and a name no handler knows.
StrategyNames == {"client_wins", "server_wins", "merge", "update_data",
                  "sum_quantities", "keep_both"}

\* POST /api/sync/user/resolve-conflict
ResolveUser(bodies) ==
    /\ kind = "user"
    /\ \E b \in bodies, st \in StrategyNames, now \in clock..MaxT :
          LET out == resolveUserSyncConflict(users, b.user_id, st, b, now) IN
          /\ users' = out.col
          /\ Handled(ResolveReq("user", b.user_id, st, b), out, now)
    /\ UNCHANGED <<registrations, locations, tasks, task_assignments, supplies, alerts>>

\* POST /api/sync/registration/resolve-conflict
ResolveRegistration(bodies) ==
    /\ kind = "registration"
    /\ \E b \in bodies, st \in StrategyNames, now \in clock..MaxT :
          LET out == resolveRegistrationSyncConflict(registrations, b.registration_id, st, b, now) IN
          /\ registrations' = out.col
          /\ Handled(ResolveReq("registration", b.registration_id, st, b), out, now)
    /\ UNCHANGED <<users, locations, tasks, task_assignments, supplies, alerts>>

\* POST /api/sync/location/resolve-conflict
ResolveLocation(bodies) ==
    /\ kind = "location"
    /\ \E b \in bodies, st \in StrategyNames, now \in clock..MaxT :
          LET out == resolveLocationSyncConflict(locations, b.location_id, st, b, now) IN
          /\ locations' = out.col
          /\ Handled(ResolveReq("location", b.location_id, st, b), out, now)
    /\ UNCHANGED <<users, registrations, tasks, task_assignments, supplies, alerts>>

\* POST /api/sync/task/resolve-conflict
ResolveTask(bodies) ==
    /\ kind = "task"
    /\ \E b \in bodies, st \in StrategyNames, now \in clock..MaxT :
          LET out == resolveTaskSyncConflict(tasks, b.task_id, st, b, now) IN
          /\ tasks' = out.col
          /\ Handled(ResolveReq("task", b.task_id, st, b), out, now)
    /\ UNCHANGED <<users, registrations, locations, task_assignments, supplies, alerts>>

\* POST /api/sync/task-assignment/resolve-conflict
ResolveTaskAssignment(bodies) ==
    /\ kind = "task_assignment"
    /\ \E b \in bodies, st \in StrategyNames, now \in clock..MaxT :
          LET out == resolveTaskAssignmentSyncConflict(task_assignments, b.assignment_id, st, b, now) IN
          /\ task_assignments' = out.col
          /\ Handled(ResolveReq("task_assignment", b.assignment_id, st, b), out, now)
    /\ UNCHANGED <<users, registrations, locations, tasks, supplies, alerts>>

\* POST /api/sync/supply/resolve-conflict
ResolveSupply(bodies) ==
    /\ kind = "supply"
    /\ \E b \in bodies, st \in StrategyNames, now \in clock..MaxT :
          LET out == resolveSupplySyncConflict(supplies, b.supply_id, st, b, now) IN
          /\ supplies' = out.col
          /\ Handled(ResolveReq("supply", b.supply_id, st, b), out, now)
    /\ UNCHANGED <<users, registrations, locations, tasks, task_assignments, alerts>>

\* POST /api/sync/alert/resolve-conflict
ResolveAlert(bodies) ==
    /\ kind = "alert"
    /\ \E b \in bodies, st \in StrategyNames, now \in clock..MaxT :
          LET out == resolveAlertSyncConflict(alerts, b.alert_id, st, b, now) IN
          /\ alerts' = out.col
          /\ Handled(ResolveReq("alert", b.alert_id, st, b), out, now)
    /\ UNCHANGED <<users, registrations, locations, tasks, task_assignments, supplies>>

\* The state after start-up: every collection empty, no request handled.
InitStore(k) ==
    /\ kind = k
    /\ users = <<>>
    /\ registrations = <<>>
    /\ locations = <<>>
    /\ tasks = <<>>
    /\ task_assignments = <<>>
    /\ supplies = <<>>
    /\ alerts = <<>>
    /\ clock = 1
    /\ req = NoReq
    /\ res = NoRes
    /\ turn = 0
    /\ auth = <<>>
    /\ otps = <<>>
    /\ tokens = {} /\ verified = {}

\* The same with no request in flight.
InitKind(k) == InitStore(k) /\ proc = <<>>

\* ---------------------------------------------------- Spec: sequential sync
\* Non-overlapping sync requests of the seven kinds; a run stays in one
\* collection, since no handler reads or writes another kind's.
Ids2 == {1, 2}

Init == \E k \in Kinds : InitKind(k)

Next ==
    \/ SyncUser(UserBodies(Ids2, {EmailA, EmailB}, {NoStr}))
    \/ SyncRegistration(RegistrationBodies(Ids2))
    \/ SyncLocation(LocationBodies(Ids2))
    \/ SyncTask(TaskBodies(Ids2, {"todo", "completed"}))
    \/ SyncTaskAssignment(TaskAssignmentBodies(Ids2, {"assigned", "completed"}))
    \/ SyncSupply(SupplyBodies(Ids2))
    \/ SyncAlert(AlertBodies(Ids2))

Spec == Init /\ [][Next]_vars

\* ------------------------------------------------- properties of sequential sync
\* The collection of the run's kind.
Store ==
    CASE kind = "user" -> users
      [] kind = "registration" -> registrations
      [] kind = "location" -> locations
      [] kind = "task" -> tasks
      [] kind = "task_assignment" -> task_assignments
      [] kind = "supply" -> supplies
      [] kind = "alert" -> alerts

\* Body b of kind k shares a secondary-unique value with a document of col
\* other than the one under its own key.
Collides(k, col, b) ==
    CASE k = "user" ->
            \E x \in DOMAIN col \ {b.user_id} :
                \/ col[x].email = b.email
                \/ (Truthy(b.phone_number) /\ col[x].phone_number = b.phone_number)
      [] k = "registration" ->
            \E x \in DOMAIN col \ {b.registration_id} :
                /\ col[x].person_name = b.person_name
                /\ col[x].age = b.age
                /\ col[x].gender = b.gender
      [] k = "location" ->
            \E x \in DOMAIN col \ {b.location_id} : col[x].name = b.name
      [] k = "task" ->
            \E x \in DOMAIN col \ {b.task_id} :
                /\ b.location_id # 0
                /\ col[x].title = b.title
                /\ Field(col[x], "location_id") = b.location_id
      [] k = "task_assignment" ->
            \E x \in DOMAIN col \ {b.assignment_id} :
                col[x].task_id = b.task_id /\ col[x].user_id = b.user_id
      [] OTHER -> FALSE

\* The step handles a sync request.
SyncStep == turn' # turn /\ req'.op = "sync"

\* C1: for each of the seven kinds, a sync request whose primary key exists,
\* whose ISO updated_at is strictly earlier than the stored ISO updated_at and
\* which collides with no other record on a secondary-unique value is answered
\* 409 as a stale conflict, and the stored document is left unchanged.
C1_StaleSyncRejected ==
    [][(/\ SyncStep
        /\ req'.id \in DOMAIN Store
        /\ req'.body.updated_at.k = "iso"
        /\ Store[req'.id].updated_at.k = "iso"
        /\ req'.body.updated_at.t < Store[req'.id].updated_at.t
        /\ ~Collides(kind, Store, req'.body))
       => (/\ res'.status = 409
           /\ res'.conflict_type = "none"
           /\ res'.conflict_field \in {"updated_at", "supply_id", "alert_id"}
           /\ Store' = Store)]_vars

\* A stale task-assignment request, whose own document the (task_id, user_id)
\* probe finds first, has been answered 409.
C1_Witness ==
    /\ kind = "task_assignment"
    /\ req.op = "sync"
    /\ res.status = 409
    /\ res.conflict_field = "updated_at"
    /\ req.id \in DOMAIN task_assignments
    /\ req.body.updated_at.t < task_assignments[req.id].updated_at.t
    /\ ~Collides(kind, task_assignments, req.body)

\* C2: no sync request overwrites data fields of a stored document with client
\* data whose updated_at is strictly earlier than the updated_at the document
\* had before the write, on the normal path or on the auto-merge path.
C2_NoStaleOverwrite ==
    [][SyncStep =>
         \A x \in DOMAIN Store :
            [Store'[x] EXCEPT !.updated_at = Store[x].updated_at] # Store[x]
               => ~(ToDate(req'.body.updated_at) < ToDate(Store[x].updated_at))]_vars

SameTriple(a, b) ==
    a.person_name = b.person_name /\ a.age = b.age /\ a.gender = b.gender

NewTriple ==
    /\ SyncStep /\ kind = "registration"
    /\ req'.id \notin DOMAIN registrations
    /\ \A x \in DOMAIN registrations : ~SameTriple(registrations[x], req'.body)

SecondOfTriple ==
    /\ SyncStep /\ kind = "registration"
    /\ req'.id \notin DOMAIN registrations
    /\ \E x \in DOMAIN registrations : SameTriple(registrations[x], req'.body)

FirstCreates ==
    /\ res'.status = 200
    /\ req'.id \in DOMAIN registrations'
    /\ SameTriple(registrations'[req'.id], req'.body)

C7_SecondRejected ==
    [][/\ NewTriple => FirstCreates
       /\ SecondOfTriple => (/\ res'.status = 409
                             /\ res'.conflict_type = "unique_constraint"
                             /\ registrations' = registrations)]_vars

\* C7, amended: the first is answered 200 and creates a record; the second is
\* answered 200 with resolved_as same_person_detected, creates no record
\* under its own registration_id and is written into the record that holds
\* the triple.
C7_SecondMerged ==
    [][/\ NewTriple => FirstCreates
       /\ SecondOfTriple =>
            (/\ res'.status = 200
             /\ res'.resolved_as = "same_person_detected"
             /\ DOMAIN registrations' = DOMAIN registrations
             /\ res'.server_id \in DOMAIN registrations
             /\ SameTriple(registrations[res'.server_id], req'.body)
             /\ registrations'[res'.server_id].location_id = req'.body.location_id
             /\ \A x \in DOMAIN registrations \ {res'.server_id} :
                   registrations'[x] = registrations[x])]_vars

\* The second request of a triple has been merged into the first's record.
C7_Witness ==
    /\ kind = "registration"
    /\ req.op = "sync"
    /\ res.status = 200
    /\ res.resolved_as = "same_person_detected"
    /\ req.id \notin DOMAIN registrations
    /\ res.server_id \in DOMAIN registrations
    /\ SameTriple(registrations[res.server_id], req.body)

\* C8: after a Task sync with task_id A, title T and location_id L was
\* accepted, a Task sync with another task_id B and the same T and L creates
\* no document under B.
C8_OneTaskPerTitleLocation ==
    [][(/\ SyncStep /\ kind = "task"
        /\ req.op = "sync" /\ res.status = 200
        /\ req'.body.title = req.body.title
        /\ req'.body.location_id = req.body.location_id
        /\ req'.body.location_id # 0
        /\ req'.id # req.id
        /\ req'.id \notin DOMAIN tasks)
       => req'.id \notin DOMAIN tasks']_vars

\* ------------------------------------------- SpecUserSync: sync(User) alone
Ids3 == {1, 2, 3}

InitUser == InitKind("user")

NextUserSync ==
    SyncUser({b \in UserBodies(Ids3, {EmailA, EmailB}, {NoStr, PhoneA}) :
                 b.name = NameAna})

SpecUserSync == InitUser /\ [][NextUserSync]_vars

\* No two user documents share an email.
EmailsDistinct ==
    \A x, y \in DOMAIN users : x # y => users[x].email # users[y].email

\* No two user documents share a non-null phone_number.
PhonesDistinct ==
    \A x, y \in DOMAIN users :
        (x # y /\ Truthy(users[x].phone_number))
           => users[x].phone_number # users[y].phone_number

\* C3: from a store with distinct emails and distinct non-null phone numbers,
\* non-overlapping sync(User) requests leave no two user documents sharing an
\* email or a non-null phone_number.
C3_UsersUnique == EmailsDistinct /\ PhonesDistinct

\* ------------------------------ SpecUserResolve: resolve-conflict(User) alone
NextUserResolve == ResolveUser(UserBodies(Ids2, {EmailA, EmailB}, {NoStr}))

SpecUserResolve == InitUser /\ [][NextUserResolve]_vars

\* --------------------------------------------- SpecResolve: resolve-conflict
\* Non-overlapping resolve-conflict requests of the seven kinds.  A resolve on
\* an absent key creates the document, except for Supply and Alert, whose
\* documents come from sync requests.
NextResolve ==
    \/ ResolveUser({b \in UserBodies(Ids2, {EmailA, EmailB}, {NoStr}) : b.name = NameAna})
    \/ ResolveRegistration({b \in RegistrationBodies(Ids2) : b.location_id = 1})
    \/ ResolveLocation({b \in LocationBodies(Ids2) : b.type = Clinic})
    \/ ResolveTask(TaskBodies({1}, {"todo"}))
    \/ ResolveTaskAssignment(TaskAssignmentBodies(Ids2, {"assigned"}))
    \/ ResolveSupply(SupplyBodies({1}))
    \/ ResolveAlert({b \in AlertBodies({1}) : b.description = NameAna})
    \/ SyncSupply({b \in SupplyBodies({1}) : b.updated_at = Iso(1)})
    \/ SyncAlert({b \in AlertBodies({1}) : b.updated_at = Iso(1)})

SpecResolve == Init /\ [][NextResolve]_vars

\* C9: from a store with distinct emails, resolve-conflict(User) requests
\* answered 200 with any strategy leave no two user documents sharing an email.
C9_ResolveKeepsEmailsDistinct ==
    \A x, y \in DOMAIN users : x # y => users[x].email # users[y].email

\* ------------------------------------- SpecMerge: the merge strategy, applied
TaskStatuses == {"todo", "in_progress", "review", "completed", "cancelled"}
AssignmentStatuses == {"assigned", "accepted", "in_progress", "completed", "rejected"}
RegistrationStatuses == {"pending", "in_progress", "completed", "transferred", "discharged"}

\* A registration record that carries a status.
WithStatus(r, status) ==
    [f \in DOMAIN r \cup {"status"} |-> IF f = "status" THEN status ELSE r[f]]

\* The client records of kind k handed to the reducer.
MergeClients(k) ==
    CASE k = "task" -> {b \in TaskBodies({1}, TaskStatuses) : b.location_id = 1}
      [] k = "task_assignment" ->
            {b \in TaskAssignmentBodies({1}, AssignmentStatuses) : b.task_id = 1}
      [] k = "registration" ->
            {WithStatus(b, st) : b \in {r \in RegistrationBodies({1}) :
                                           r.person_name = NameAna /\ r.location_id = 1},
                                 st \in RegistrationStatuses}

\* The server records: the documents the client records are stored as.
MergeServers(k) ==
    CASE k = "task" -> {createTaskDoc(<<>>, 1, b, 1)[1] : b \in MergeClients(k)}
      [] k = "task_assignment" ->
            {createTaskAssignmentDoc(<<>>, 1, b, 1)[1] : b \in MergeClients(k)}
      [] k = "registration" ->
            {WithStatus(createRegistrationDoc(<<>>, 1, b, 1)[1], b.status) :
                b \in MergeClients(k)}

MergeOf(k, clientData, serverData, now) ==
    CASE k = "task" -> resolveTaskConflict(clientData, serverData, "merge")
      [] k = "task_assignment" ->
            resolveTaskAssignmentConflict(clientData, serverData, "merge")
      [] k = "registration" ->
            resolveRegistrationConflict(clientData, serverData, "merge", now)

Rank(k, status) ==
    CASE k = "task" -> TaskRank(status)
      [] k = "task_assignment" -> AssignmentRank(status)
      [] k = "registration" -> RegistrationRank(status)

InitMerge ==
    \E k \in {"task", "task_assignment", "registration"} :
        /\ InitStore(k)
        /\ \E c \in MergeClients(k), sv \in MergeServers(k) :
              proc = [client |-> c, server |-> sv]

\* The reducer runs on the pair.
ApplyMerge ==
    /\ turn = 0
    /\ res' = [status |-> 200,
               resolvedData |-> MergeOf(kind, proc.client, proc.server, clock)]
    /\ req' = [op |-> "merge", kind |-> kind]
    /\ turn' = 1
    /\ UNCHANGED <<kind, users, registrations, locations, tasks, task_assignments,
                   supplies, alerts, clock, proc, auth, otps, tokens,
                   verified>>

NextMerge == ApplyMerge

SpecMerge == InitMerge /\ [][NextMerge]_vars

\* C10: for Task, TaskAssignment and Registration, the merge strategy returns
\* a status that ranks at least as high as the client's and as the server's,
\* whichever record is newer.
C10_MergeStatusNeverRegresses ==
    req.op = "merge" =>
        /\ Rank(kind, res.resolvedData.status) >= Rank(kind, proc.client.status)
        /\ Rank(kind, res.resolvedData.status) >= Rank(kind, proc.server.status)

\* --------------------------- two sync(User) requests in flight, call by call
\* syncUserFromClient awaits each Firestore call; another request's calls
\* run between them. A request in flight holds its body, what docRef.get()
\* returned, and the write it has decided on.
Procs == {1, 2}

NoPlan == [op |-> "none", id |-> 0, data |-> <<>>]

InFlight(b) ==
    [pc |-> "get", body |-> b, exists |-> FALSE, server |-> b, plan |-> NoPlan,
     res |-> NoRes]

\* The phone probe reads the store only for a phone number that is present
\* and, on the update path, differs from the stored one.
NeedsPhoneProbe(user, exists, serverData) ==
    /\ Truthy(user.phone_number)
    /\ (exists => user.phone_number # serverData.phone_number)

\* const doc = await docRef.get(), and the staleness test on it.
RaceGet(p) ==
    /\ proc[p].pc = "get"
    /\ LET user == proc[p].body
           exists == user.user_id \in DOMAIN users
           serverData == IF exists THEN users[user.user_id] ELSE user
       IN  proc' = [proc EXCEPT ![p] =
              IF exists /\ IsStale(user, serverData)
              THEN [@ EXCEPT !.pc = "done",
                             !.res = Conflict409("updated_at", "none", FourStrategies,
                                                 user.user_id)]
              ELSE [@ EXCEPT !.exists = exists,
                             !.server = serverData,
                             !.plan = [op |-> IF exists THEN "update" ELSE "create",
                                       id |-> user.user_id, data |-> user],
                             !.pc = IF ~exists \/ user.email # serverData.email
                                    THEN "email"
                                    ELSE IF NeedsPhoneProbe(user, exists, serverData)
                                    THEN "phone_number" ELSE "write"]]
    /\ UNCHANGED <<kind, users, registrations, locations, tasks, task_assignments,
                   supplies, alerts, clock, req, res, turn, auth, otps, tokens,
                   verified>>

\* await checkUniqueFieldExists(field, ...) and the branch taken on its result.
RaceProbe(p, field) ==
    /\ proc[p].pc = field
    /\ LET user == proc[p].body
           exists == proc[p].exists
           hit == checkUniqueFieldExists(users, field, user[field],
                                         IF exists THEN user.user_id ELSE 0)
       IN  proc' = [proc EXCEPT ![p] =
              IF hit = 0
              THEN [@ EXCEPT !.pc = IF /\ field = "email"
                                       /\ NeedsPhoneProbe(user, exists, proc[p].server)
                                    THEN "phone_number" ELSE "write"]
              ELSE IF exists
              THEN [@ EXCEPT !.pc = "done", !.res = UserUpdateProbe(users, user, field)]
              ELSE IF isSameUserProfile(user, users[hit])
              THEN [@ EXCEPT !.pc = "write",
                             !.plan = [op |-> "merge", id |-> hit,
                                       data |-> UserMergedData(users[hit], user, hit,
                                                               clock)]]
              ELSE [@ EXCEPT !.pc = "done",
                             !.res = Conflict409(field, "unique_constraint",
                                                 ClientWinsOnly, hit)]]
    /\ UNCHANGED <<kind, users, registrations, locations, tasks, task_assignments,
                   supplies, alerts, clock, req, res, turn, auth, otps, tokens,
                   verified>>

RaceEmailProbe(p) == RaceProbe(p, "email")

RacePhoneProbe(p) == RaceProbe(p, "phone_number")

\* await createUserDoc(...) or await updateUserDoc(...), and the 200.
RaceWrite(p) ==
    /\ proc[p].pc = "write"
    /\ LET plan == proc[p].plan IN
       /\ users' = IF plan.op = "create"
                   THEN createUserDoc(users, plan.id, plan.data, clock)
                   ELSE updateUserDoc(users, plan.id, plan.data, clock)
       /\ proc' = [proc EXCEPT ![p] =
             [@ EXCEPT !.pc = "done",
                       !.res = IF plan.op = "merge"
                               THEN AutoResolved200("same_user_detected", plan.id)
                               ELSE Ok200]]
    /\ UNCHANGED <<kind, registrations, locations, tasks, task_assignments,
                   supplies, alerts, clock, req, res, turn, auth, otps, tokens,
                   verified>>

NextRace ==
    \E p \in Procs :
        \/ RaceGet(p)
        \/ RaceEmailProbe(p)
        \/ RacePhoneProbe(p)
        \/ RaceWrite(p)

RaceBodies(ids) ==
    {b \in UserBodies(ids, {EmailA, EmailB}, {NoStr, PhoneA}) : b.name = NameAna}

\* SpecCreateRace: an empty store and two requests with distinct user_ids.
InitCreateRace ==
    /\ InitStore("user")
    /\ \E b1 \in RaceBodies({1}), b2 \in RaceBodies({2}) :
          proc = [p \in Procs |-> InFlight(IF p = 1 THEN b1 ELSE b2)]

SpecCreateRace == InitCreateRace /\ [][NextRace]_vars

\* SpecUpdateRace: user 1 was synced at instant 0, and two requests for
\* user 1 carry later instants.
SeedUser ==
    [user_id |-> 1, name |-> NameAna, email |-> EmailA, phone_number |-> NoStr,
     image_url |-> NoStr, role |-> "volunteer", created_at |-> Iso(0),
     updated_at |-> Iso(0)]

InitUpdateRace ==
    /\ kind = "user"
    /\ users = syncUserFromClient(<<>>, SeedUser, 1).col
    /\ registrations = <<>> /\ locations = <<>> /\ tasks = <<>>
    /\ task_assignments = <<>> /\ supplies = <<>> /\ alerts = <<>>
    /\ clock = 1 /\ req = NoReq /\ res = NoRes /\ turn = 0
    /\ auth = <<>> /\ otps = <<>>
    /\ tokens = {} /\ verified = {}
    /\ \E b1, b2 \in RaceBodies({1}) :
          proc = [p \in Procs |-> InFlight(IF p = 1 THEN b1 ELSE b2)]

SpecUpdateRace == InitUpdateRace /\ [][NextRace]_vars

\* Both requests have been answered.
BothDone == \A p \in Procs : proc[p].pc = "done"

\* C4: two concurrent create-path sync(User) requests with distinct user_ids
\* and the same email, one not yet in the store, leave at most one user
\* document with that email once both have completed.
C4_OneDocPerEmail ==
    (BothDone /\ proc[1].body.email = proc[2].body.email)
        => Cardinality({x \in DOMAIN users :
                           users[x].email = proc[1].body.email}) <= 1

\* C6: with two concurrent sync requests on one existing primary key, both
\* carrying an updated_at newer than the stored one, the stored updated_at
\* decreases at no step.
C6_UpdatedAtNeverDecreases ==
    [][\A x \in DOMAIN users :
          ToDate(users'[x].updated_at) >= ToDate(users[x].updated_at)]_vars

\* --------------------------------------------- SpecAuth: the password reset
\* The instants (in minutes) a request may arrive at: now, and at or just
\* after the expiry of an OTP issued now.
MaxMinute == 12

ArrivalTimes ==
    {t \in {clock, clock + OTP_EXPIRATION_MINUTES, clock + OTP_EXPIRATION_MINUTES + 1} :
        t <= MaxMinute}

\* req.body.email: "a@x.io", " A@x.io", "b@x.io" and a missing email.
AuthEmails == {EmailA, <<32, 65, 64, 120, 46, 105, 111>>, EmailB, NoStr}

\* req.body of reset-password: the passwords "secret", "hunter" and "abc".
ResetBodies ==
    {[email |-> e, password |-> pw[1], confirm_password |-> pw[2]] :
        e \in AuthEmails,
        pw \in {<<<<115, 101, 99, 114, 101, 116>>, <<115, 101, 99, 114, 101, 116>>>>,
                <<<<104, 117, 110, 116, 101, 114>>, <<104, 117, 110, 116, 101, 114>>>>,
                <<<<115, 101, 99, 114, 101, 116>>, <<104, 117, 110, 116, 101, 114>>>>,
                <<<<97, 98, 99>>, <<97, 98, 99>>>>}}

\* The part of the state no auth handler touches.
AuthFrame ==
    /\ turn' = 1 - turn
    /\ UNCHANGED <<kind, registrations, locations, tasks, task_assignments,
                   supplies, alerts, proc, tokens>>

\* The same for the handlers that are not verify-otp.
AuthFrameKept == AuthFrame /\ UNCHANGED verified

\* POST /forgot-password
ForgotPassword ==
    /\ \E e \in AuthEmails, now \in ArrivalTimes, otp \in {100000, 100001},
          sent \in BOOLEAN :
          LET out == forgotPassword(users, otps, e, now, otp, sent) IN
          /\ otps' = out.otps
          /\ res' = out.res
          /\ req' = [op |-> "forgot", kind |-> "user", email |-> e, generated |-> otp]
          /\ clock' = now
    /\ UNCHANGED <<users, auth>>
    /\ AuthFrameKept

\* POST /verify-otp: the codes "100000", "100001", "100000a" and a missing one.
VerifyOtp ==
    /\ \E e \in AuthEmails, now \in ArrivalTimes,
          otp \in {<<49, 48, 48, 48, 48, 48>>, <<49, 48, 48, 48, 48, 49>>,
                   <<49, 48, 48, 48, 48, 48, 97>>, NoStr} :
          /\ res' = verifyOtp(otps, e, otp, now)
          /\ req' = [op |-> "verify", kind |-> "user", email |-> e, otp |-> otp]
          /\ verified' = IF verifyOtp(otps, e, otp, now).status = 200
                          THEN verified \cup {NormalizeEmail(e)}
                          ELSE verified
          /\ clock' = now
    /\ UNCHANGED <<users, auth, otps>>
    /\ AuthFrame

\* POST /reset-password, run to its response.
ResetPassword ==
    /\ \E b \in ResetBodies, now \in ArrivalTimes :
          LET out == resetPassword(users, auth, otps, b, now, FALSE) IN
          /\ users' = out.col
          /\ auth' = out.auth
          /\ otps' = out.otps
          /\ res' = out.res
          /\ req' = [op |-> "reset", kind |-> "user", email |-> b.email, body |-> b]
          /\ clock' = now
    /\ AuthFrameKept

\* POST /reset-password, cancelled between the delete of the old profile and
\* the set of the new one.
ResetPasswordCancelled ==
    /\ \E b \in ResetBodies, now \in ArrivalTimes :
          LET out == resetPassword(users, auth, otps, b, now, TRUE) IN
          /\ out.res.status = 0
          /\ users' = out.col
          /\ auth' = out.auth
          /\ otps' = out.otps
          /\ res' = out.res
          /\ req' = [op |-> "reset", kind |-> "user", email |-> b.email, body |-> b]
          /\ clock' = now
    /\ AuthFrameKept

\* Profile 1 (a@x.io) was created by a sync request; the account of a@x.io is
\* missing, registered under the profile's key or registered under another
\* uid.  No profile holds b@x.io.
InitAuth ==
    /\ kind = "user"
    /\ registrations = <<>> /\ locations = <<>> /\ tasks = <<>>
    /\ task_assignments = <<>> /\ supplies = <<>> /\ alerts = <<>>
    /\ clock = 1 /\ req = NoReq /\ res = NoRes /\ turn = 0
    /\ proc = <<>> /\ otps = <<>>
    /\ tokens = {} /\ verified = {}
    /\ \E pa \in UserBodies({1}, {EmailA}, {NoStr}) :
          /\ pa.name = NameAna
          /\ pa.updated_at = Iso(1)
          /\ users = createUserDoc(<<>>, 1, pa, 1)
    /\ \E ua \in {0, 1, 3} :
          auth = [u \in {ua} \ {0} |->
                     [email |-> EmailA,
                      password |-> <<111, 108, 100, 112, 97, 115, 115>>]]

NextAuth ==
    \/ ForgotPassword
    \/ VerifyOtp
    \/ ResetPassword
    \/ ResetPasswordCancelled

SpecAuth == InitAuth /\ [][NextAuth]_vars

\* ------------------------------------------- properties of resolve-conflict
\* The step handles a resolve-conflict request.
ResolveStep == turn' # turn /\ req'.op = "resolve"

C12_SumQuantities ==
    [][(/\ ResolveStep
        /\ kind = "supply"
        /\ req'.strategy = "sum_quantities"
        /\ req'.id \in DOMAIN supplies)
       => /\ res'.status = 200
          /\ res'.resolvedData.quantity = req'.body.quantity + supplies[req'.id].quantity
          /\ supplies'[req'.id].quantity = req'.body.quantity + supplies[req'.id].quantity]_vars

\* C13: for every kind, a resolve-conflict on an existing document whose
\* strategy name is none of client_wins, server_wins, merge, update_data (nor,
\* for Supply, sum_quantities or average_quantities) is answered 400 and leaves
\* every stored document unchanged.
C13_UnknownStrategyRejected ==
    [][(/\ ResolveStep
        /\ req'.id \in DOMAIN Store
        /\ req'.strategy \notin {"client_wins", "server_wins", "merge", "update_data"}
        /\ ~(kind = "supply"
             /\ req'.strategy \in {"sum_quantities", "average_quantities"}))
       => (res'.status = 400 /\ Store' = Store)]_vars

\* C14: for User, Registration, Location, Task and TaskAssignment, a
\* resolve-conflict on an absent primary key (with a strategy the absent case
\* admits) whose clientData carries a secondary-unique value already held by
\* another document is answered 409 and creates no document.
C14_AbsentKeyRechecksUniqueness ==
    [][(/\ ResolveStep
        /\ kind \in {"user", "registration", "location", "task", "task_assignment"}
        /\ req'.strategy \notin {"server_wins", "update_data"}
        /\ req'.id \notin DOMAIN Store
        /\ Collides(kind, Store, req'.body))
       => (res'.status = 409 /\ Store' = Store)]_vars

\* Body b of kind k shares its secondary-unique value with a document of col
\* under another key which the kind's identity heuristic classifies as the
\* same entity.
SameEntityElsewhere(k, col, b) ==
    CASE k = "user" ->
            \E x \in DOMAIN col \ {b.user_id} :
                col[x].email = b.email /\ isSameUserProfile(b, col[x])
      [] k = "registration" ->
            \E x \in DOMAIN col \ {b.registration_id} :
                SameTriple(col[x], b) /\ isSamePersonRegistration(b, col[x])
      [] k = "location" ->
            \E x \in DOMAIN col \ {b.location_id} :
                col[x].name = b.name /\ isSameLocationPlace(b, col[x])
      [] k = "task" ->
            \E x \in DOMAIN col \ {b.task_id} :
                /\ b.location_id # 0
                /\ col[x].title = b.title
                /\ Field(col[x], "location_id") = b.location_id
                /\ isSameTaskProfile(b, col[x])
      [] k = "task_assignment" ->
            \E x \in DOMAIN col \ {b.assignment_id} :
                /\ col[x].task_id = b.task_id
                /\ col[x].user_id = b.user_id
                /\ isSameTaskAssignmentProfile(b, col[x])
      [] OTHER -> FALSE

\* C15: for every kind with an identity heuristic, a sync request (not stale)
\* whose own primary key exists and whose secondary-unique value is held by a
\* different document that the heuristic classifies as the same entity is
\* answered 409 with a potential-duplicate conflict and writes no document.
C15_UpdatePathNeverAutoMerges ==
    [][(/\ SyncStep
        /\ req'.id \in DOMAIN Store
        /\ ~IsStale(req'.body, Store[req'.id])
        /\ SameEntityElsewhere(kind, Store, req'.body))
       => /\ res'.status = 409
          /\ res'.conflict_type \in {"potential_duplicate_account",
                                     "potential_duplicate_registration",
                                     "potential_duplicate_location"}
          /\ Store' = Store]_vars

\* C16: for Task, TaskAssignment, Supply and Alert, which have no
\* identity-defining subset, update_data never appears in the
\* allowed_strategies of a response (a sync 409 or a resolve-conflict answer).
C16_NoUpdateDataWithoutIdentity ==
    (kind \in {"task", "task_assignment", "supply", "alert"} /\ req.op # "none")
        => \A i \in DOMAIN res.allowed_strategies :
               res.allowed_strategies[i] # "update_data"

\* ------------------------------------------- properties of the password reset
\* The step completes a reset-password request with 200.
ResetDone == turn' # turn /\ req'.op = "reset" /\ res'.status = 200

\* C17: after a reset-password answered 200, a profile holds the email and
\* each profile found by that email is stored under the uid the AuthStore
\* holds for the email, which is also the profile's user_id field.
C17_ProfileKeyedByAuthUid ==
    [][ResetDone =>
          LET e == NormalizeEmail(req'.email) IN
          /\ \E p \in DOMAIN users' : users'[p].email = e
          /\ \A p \in DOMAIN users' :
                users'[p].email = e =>
                    /\ p \in DOMAIN auth'
                    /\ auth'[p].email = e
                    /\ users'[p].user_id = p]_vars

\* The profile the email query of reset-password finds is under key uid, the
\* AuthStore does not know uid and holds the email under another uid a.
UidMismatch(e, uid, a) ==
    /\ uid \in DOMAIN users
    /\ users[uid].email = e
    /\ \A x \in DOMAIN users : users[x].email = e => uid <= x
    /\ uid \notin DOMAIN auth
    /\ a \in DOMAIN auth
    /\ auth[a].email = e

\* C18: when the DocStore holds the profile of an email under key d1, the
\* AuthStore does not know d1 and holds the email under another uid a1, a valid
\* reset-password for the email is answered 200 and afterwards users has a
\* document under a1, none under d1, and the password of a1 is the submitted one.
C18_MismatchRekeyed ==
    [][\A d1 \in DOMAIN users, a1 \in DOMAIN auth :
          (/\ turn' # turn
           /\ req'.op = "reset"
           /\ res'.status # 0
           /\ Len(req'.body.password) >= 6
           /\ req'.body.password = req'.body.confirm_password
           /\ UidMismatch(NormalizeEmail(req'.email), d1, a1))
          => /\ res'.status = 200
             /\ a1 \in DOMAIN users'
             /\ d1 \notin DOMAIN users'
             /\ auth'[a1].password = req'.body.password]_vars

\* A reset-password was answered 200 and left the profile of a@x.io, created
\* under key 1, under the uid 3 of its account with the submitted password.
C18_Witness ==
    /\ req.op = "reset"
    /\ res.status = 200
    /\ DOMAIN users = {3}
    /\ users[3].email = EmailA
    /\ 3 \in DOMAIN auth
    /\ auth[3].password = req.body.password

\* C19: a reset-password that follows one for the same email cancelled between
\* the delete of the old profile and the set of the new one completes with 200
\* and leaves the profile stored under the AuthStore uid of the email.
C19_ResetAfterCancelRecovers ==
    [][(/\ turn' # turn
        /\ req.op = "reset" /\ res.status = 0
        /\ req'.op = "reset" /\ res'.status # 0
        /\ NormalizeEmail(req'.email) = NormalizeEmail(req.email)
        /\ Len(req'.body.password) >= 6
        /\ req'.body.password = req'.body.confirm_password)
       => /\ res'.status = 200
          /\ \E a \in DOMAIN auth' :
                /\ auth'[a].email = NormalizeEmail(req'.email)
                /\ a \in DOMAIN users'
                /\ users'[a].email = NormalizeEmail(req'.email)]_vars

\* The decimal digits of a natural number.
RECURSIVE Decimal(_)
Decimal(n) == IF n < 10 THEN <<48 + n>> ELSE Append(Decimal(n \div 10), 48 + (n % 10))

\* C20: with email and otp present, verify-otp is answered 200 exactly when an
\* OTP record exists for the normalized email, the supplied code equals the
\* stored code and the current instant is not later than expires_at; otherwise
\* it is answered 400; it never modifies the OTP records.
C20_VerifyOtpExact ==
    [][(/\ turn' # turn
        /\ req'.op = "verify"
        /\ Truthy(NormalizeEmail(req'.email))
        /\ Truthy(req'.otp))
       => LET e == NormalizeEmail(req'.email) IN
          /\ res'.status \in {200, 400}
          /\ res'.status = 200 <=>
                (/\ e \in DOMAIN otps
                 /\ req'.otp = Decimal(otps[e].otp)
                 /\ clock' <= otps[e].expiresAt)
          /\ otps' = otps]_vars
WithTimes(bodies, created, updated) ==
    {[b EXCEPT !.created_at = c, !.updated_at = u] :
        b \in bodies, c \in created, u \in updated}

\* req.body of POST /register: "secret" and "abc" as passwords, "doctor" as a
\* role that is not allowed.
RegisterBodies ==
    {[email |-> e, password |-> pw, name |-> NameAna, role |-> r,
      phone_number |-> NoStr] :
        e \in {<<32, 65, 64, 120, 46, 105, 111>>},
        pw \in {<<115, 101, 99, 114, 101, 116>>, <<97, 98, 99>>},
        r \in {"volunteer", "doctor"}}

\* POST /register
RegisterUser ==
    /\ kind = "user"
    /\ \E b \in RegisterBodies, now \in clock..MaxT :
          LET out == registerUser(users, auth, b, now) IN
          /\ users' = out.col
          /\ auth' = out.auth
          /\ res' = out.res
          /\ req' = [op |-> "register", kind |-> "user", email |-> b.email, body |-> b]
          /\ clock' = now
    /\ UNCHANGED otps
    /\ AuthFrameKept

\* POST /reset-password for a@x.io, at an instant of the sync clock.
ResetPasswordNow ==
    /\ kind = "user"
    /\ \E b \in {x \in ResetBodies :
                    /\ x.email = EmailA
                    /\ x.password \in {<<104, 117, 110, 116, 101, 114>>, <<97, 98, 99>>}},
          now \in clock..MaxT :
          LET out == resetPassword(users, auth, otps, b, now, FALSE) IN
          /\ users' = out.col
          /\ auth' = out.auth
          /\ otps' = out.otps
          /\ res' = out.res
          /\ req' = [op |-> "reset", kind |-> "user", email |-> b.email, body |-> b]
          /\ clock' = now
    /\ AuthFrameKept

\* The sync bodies of SpecTimes.  Every handler but the TaskAssignment one
\* answers 400 to a body without a truthy updated_at.
TimedUserBodies ==
    WithTimes({b \in UserBodies({1}, {EmailA, EmailB}, {NoStr}) : b.name = NameAna},
              {NoTime, Iso(MaxT)}, IsoTimes \cup {BadTime})

TimedTaskAssignmentBodies ==
    WithTimes(TaskAssignmentBodies(Ids2, {"assigned"}),
              {NoTime, Iso(MaxT)}, IsoTimes \cup {NoTime, NullTime, BadTime})

InitTimes == \E k \in {"user", "task_assignment"} : InitKind(k)

NextTimes ==
    \/ RegisterUser
    \/ ResetPasswordNow
    \/ SyncUser(TimedUserBodies)
    \/ SyncTaskAssignment(TimedTaskAssignmentBodies)

SpecTimes == InitTimes /\ [][NextTimes]_vars

\* C22: when a User profile carries a server-assigned timestamp T as
\* updated_at (written by register or reset-password) and a sync for that
\* user_id carries an ISO updated_at earlier than T, the sync is answered 409
\* stale and the profile is unchanged.
C22_StaleAgainstServerTimestamp ==
    [][(/\ SyncStep
        /\ kind = "user"
        /\ req'.id \in DOMAIN users
        /\ users[req'.id].updated_at.k = "ts"
        /\ req'.body.updated_at.k = "iso"
        /\ req'.body.updated_at.t < users[req'.id].updated_at.t)
       => (/\ res'.status = 409
           /\ res'.conflict_field = "updated_at"
           /\ users' = users)]_vars

\* The updated_at is missing (undefined, null) or is no date.
Unparseable(x) == x.k \in {"none", "null", "bad"}

\* C23: a sync request that passed validation and whose updated_at, or the
\* stored updated_at of its document, is missing or unparseable is not
\* answered with a stale conflict; unless it collides with another document on
\* a secondary-unique value it is answered 200 and its data is written.
C23_UnparseableNeverStale ==
    [][(/\ SyncStep
        /\ \/ Unparseable(req'.body.updated_at)
           \/ (req'.id \in DOMAIN Store /\ Unparseable(Store[req'.id].updated_at)))
       => /\ ~(res'.status = 409 /\ res'.conflict_field = "updated_at")
          /\ ~Collides(kind, Store, req'.body)
                => /\ res'.status = 200
                   /\ req'.id \in DOMAIN Store'
                   /\ kind = "user"
                         => /\ Store'[req'.id].email = req'.body.email
                            /\ Store'[req'.id].role = req'.body.role
                   /\ kind = "task_assignment"
                         => /\ Store'[req'.id].task_id = req'.body.task_id
                            /\ Store'[req'.id].status = req'.body.status]_vars

\* C24: every stored record has created_at not later than updated_at (where
\* both are dates), whatever created_at and updated_at the requests carried.
C24_CreatedNotAfterUpdated ==
    \A x \in DOMAIN Store :
        LET created == ToDate(Store[x].created_at)
            updated == ToDate(Store[x].updated_at)
        IN  (created # NaN /\ updated # NaN) => created <= updated

\* ------------------------------------ SpecReduce: the conflict reducers, applied
\* record r with field f set to v.
WithField(r, f, v) == [g \in DOMAIN r \cup {f} |-> IF g = f THEN v ELSE r[g]]

\* The client records of kind k handed to its reducer: request bodies, some
\* with a field (status, is_active, a null quantity) the sync bodies lack.
ReduceClients(k) ==
    CASE k = "user" -> UserBodies({1}, {EmailA, EmailB}, {NoStr})
      [] k = "registration" ->
            LET plain == {b \in RegistrationBodies({1}) : b.location_id = 1}
            IN  plain \cup {WithField(b, "status", st) :
                               b \in plain, st \in {"pending", "completed"}}
      [] k = "location" -> {b \in LocationBodies({1}) : b.type = Clinic}
      [] k = "task" -> TaskBodies({1}, {"todo", "completed"})
      [] k = "task_assignment" -> TaskAssignmentBodies({1}, {"assigned", "completed"})
      [] k = "supply" ->
            SupplyBodies({1})
               \cup {[b EXCEPT !.quantity = NullQuantity] : b \in SupplyBodies({1})}
      [] k = "alert" ->
            LET plain == {b \in AlertBodies({1}) : b.description = NameAna}
            IN  plain \cup {WithField(b, "is_active", v) :
                               b \in plain, v \in {"true", "false"}}

\* The document a create of kind k stores for body b at instant now; a
\* registration keeps the status a later write gave it.
StoredAs(k, b, now) ==
    CASE k = "user" -> createUserDoc(<<>>, 1, b, now)[1]
      [] k = "registration" ->
            IF "status" \in DOMAIN b
            THEN WithField(createRegistrationDoc(<<>>, 1, b, now)[1], "status", b.status)
            ELSE createRegistrationDoc(<<>>, 1, b, now)[1]
      [] k = "location" -> createLocationDoc(<<>>, 1, b, now)[1]
      [] k = "task" -> createTaskDoc(<<>>, 1, b, now)[1]
      [] k = "task_assignment" -> createTaskAssignmentDoc(<<>>, 1, b, now)[1]
      [] k = "supply" -> createSupplyDoc(<<>>, 1, b, now)[1]
      [] k = "alert" -> createAlertDoc(<<>>, 1, b, now)[1]

\* The server records: the stored documents of the client records, with the
\* client's ISO updated_at or, for a body without one, a server timestamp.
ReduceServers(k) ==
    {StoredAs(k, b, 1) : b \in ReduceClients(k)}
       \cup {StoredAs(k, [b EXCEPT !.updated_at = NoTime], n) :
                b \in ReduceClients(k), n \in Instants}

\* The reducer of kind k.
ReduceOf(k, clientData, serverData, strategy, now) ==
    CASE k = "user" -> resolveUserConflict(clientData, serverData, strategy, now)
      [] k = "registration" ->
            resolveRegistrationConflict(clientData, serverData, strategy, now)
      [] k = "location" -> resolveLocationConflict(clientData, serverData, strategy, now)
      [] k = "task" -> resolveTaskConflict(clientData, serverData, strategy)
      [] k = "task_assignment" ->
            resolveTaskAssignmentConflict(clientData, serverData, strategy)
      [] k = "supply" -> resolveSupplyConflict(clientData, serverData, strategy)
      [] k = "alert" -> resolveAlertConflict(clientData, serverData, strategy)

\* A client record and a server record of one kind, or one record as both.
InitReduce ==
    \E k \in Kinds :
        /\ InitStore(k)
        /\ \/ \E c \in ReduceClients(k), sv \in ReduceServers(k) :
                 proc = [client |-> c, server |-> sv]
           \/ \E x \in ReduceClients(k) \cup ReduceServers(k) :
                 proc = [client |-> x, server |-> x]

\* The reducer runs on the pair with the strategy.
Reduce(strategy) ==
    /\ turn = 0
    /\ res' = [status |-> 200,
               resolvedData |-> ReduceOf(kind, proc.client, proc.server, strategy, clock)]
    /\ req' = [op |-> "reduce", kind |-> kind, strategy |-> strategy]
    /\ turn' = 1
    /\ UNCHANGED <<kind, users, registrations, locations, tasks, task_assignments,
                   supplies, alerts, clock, proc, auth, otps, tokens,
                   verified>>

ReduceClientWins == Reduce("client_wins")

ReduceServerWins == Reduce("server_wins")

ReduceMerge == Reduce("merge")

NextReduce ==
    \/ ReduceClientWins
    \/ ReduceServerWins
    \/ ReduceMerge

SpecReduce == InitReduce /\ [][NextReduce]_vars

\* C25: for each of the seven kinds and every client and server record whose
\* updated_at both parse, the updated_at of the merge output is the later of
\* the two instants, and the server's updated_at when they are equal.
C25_MergeUpdatedAtIsMax ==
    LET cT == NewDate(proc.client.updated_at)
        sT == ToDate(proc.server.updated_at)
        mT == ToDate(res.resolvedData.updated_at)
    IN  (/\ req.op = "reduce" /\ req.strategy = "merge"
         /\ ~Falsy(proc.client.updated_at) /\ cT # NaN /\ sT # NaN)
           => /\ mT = IF cT > sT THEN cT ELSE sT
              /\ cT = sT => res.resolvedData.updated_at = proc.server.updated_at

\* A task merge whose client was newer returned the client's updated_at.
C25_Witness ==
    /\ kind = "task"
    /\ req.op = "reduce" /\ req.strategy = "merge"
    /\ NewDate(proc.client.updated_at) > ToDate(proc.server.updated_at)
    /\ ToDate(proc.server.updated_at) # NaN
    /\ res.resolvedData.updated_at = proc.client.updated_at

\* The value of field f in a record without it (undefined).
Undefined(f) ==
    CASE f \in {"medical_history", "notes", "message", "description"} -> NoStr
      [] f \in {"status", "severity", "is_active", "priority"} -> ""
      [] f \in {"created_at", "updated_at"} -> NoTime
      [] OTHER -> 0

\* a and b agree field for field, an absent field being undefined.
SameFields(a, b) ==
    \A f \in DOMAIN a \cup DOMAIN b :
        (IF f \in DOMAIN a THEN a[f] ELSE Undefined(f))
           = (IF f \in DOMAIN b THEN b[f] ELSE Undefined(f))

\* C26: for the reducer of each of the seven kinds and every record x of the
\* kind, the merge of the pair (x, x) equals x field for field.
C26_MergeIdempotent ==
    (req.op = "reduce" /\ req.strategy = "merge" /\ proc.client = proc.server)
        => SameFields(res.resolvedData, proc.client)

\* C27: for the reducer of each of the seven kinds and all records x (client)
\* and y (server), client_wins returns x and server_wins returns y.
C27_WinsReturnTheirSide ==
    /\ (req.op = "reduce" /\ req.strategy = "client_wins")
          => res.resolvedData = proc.client
    /\ (req.op = "reduce" /\ req.strategy = "server_wins")
          => res.resolvedData = proc.server

\* client_wins on a supply pair whose records differ returned the client's.
C27_Witness ==
    /\ kind = "supply"
    /\ req.op = "reduce" /\ req.strategy = "client_wins"
    /\ proc.client # proc.server
    /\ res.resolvedData = proc.client

\* C28: for each kind, a sync request with the body of the sync request
\* handled just before it leaves every stored document as the first left it,
\* and is answered 200 when the first was.
C28_SyncTwiceIsSyncOnce ==
    [][(/\ SyncStep
        /\ req.op = "sync"
        /\ req'.body = req.body)
       => /\ Store' = Store
          /\ res.status = 200 => res'.status = 200]_vars

\* --------------------------- SpecSyncResolve: sync and resolve-conflict together
\* Non-overlapping sync and resolve-conflict requests of the seven kinds, on
\* two primary keys per kind.
UserBodiesA == {b \in UserBodies(Ids2, {EmailA}, {NoStr}) : b.name = NameAna}
RegistrationBodiesA ==
    {b \in RegistrationBodies(Ids2) : b.person_name = NameAna /\ b.location_id = 1}
LocationBodiesA == {b \in LocationBodies(Ids2) : b.name = NameAna /\ b.type = Clinic}
TaskBodiesA == {b \in TaskBodies(Ids2, {"todo"}) : b.location_id = 1}
TaskAssignmentBodiesA == {b \in TaskAssignmentBodies(Ids2, {"assigned"}) : b.task_id = 1}
SupplyBodiesA == {b \in SupplyBodies(Ids2) : b.quantity = 3}
AlertBodiesA == {b \in AlertBodies(Ids2) : b.description = NameAna}

NextSyncResolve ==
    \/ SyncUser(UserBodiesA)
    \/ SyncRegistration(RegistrationBodiesA)
    \/ SyncLocation(LocationBodiesA)
    \/ SyncTask(TaskBodiesA)
    \/ SyncTaskAssignment(TaskAssignmentBodiesA)
    \/ SyncSupply(SupplyBodiesA)
    \/ SyncAlert(AlertBodiesA)
    \/ ResolveUser(UserBodiesA)
    \/ ResolveRegistration(RegistrationBodiesA)
    \/ ResolveLocation(LocationBodiesA)
    \/ ResolveTask(TaskBodiesA)
    \/ ResolveTaskAssignment(TaskAssignmentBodiesA)
    \/ ResolveSupply(SupplyBodiesA)
    \/ ResolveAlert(AlertBodiesA)

SpecSyncResolve == Init /\ [][NextSyncResolve]_vars

\* C29: no sync request and no resolve-conflict request, of any kind and with
\* any outcome, deletes a document: the set of primary keys of each of the
\* seven collections never shrinks.
C29_NoRequestDeletes ==
    [][(turn' # turn /\ req'.op \in {"sync", "resolve"})
       => /\ DOMAIN users \subseteq DOMAIN users'
          /\ DOMAIN registrations \subseteq DOMAIN registrations'
          /\ DOMAIN locations \subseteq DOMAIN locations'
          /\ DOMAIN tasks \subseteq DOMAIN tasks'
          /\ DOMAIN task_assignments \subseteq DOMAIN task_assignments'
          /\ DOMAIN supplies \subseteq DOMAIN supplies'
          /\ DOMAIN alerts \subseteq DOMAIN alerts']_vars

\* A resolve-conflict with server_wins was answered 200 on one of the two
\* stored supplies, and both are still stored.
C29_Witness ==
    /\ kind = "supply"
    /\ req.op = "resolve"
    /\ req.strategy = "server_wins"
    /\ res.status = 200
    /\ DOMAIN supplies = Ids2

\* ------------------------------------- SpecToken: login and the protected route
\* The server clock of SpecToken counts hours, from 1 to MaxHour.
MaxHour == 4

\* expiresIn: '2h'
expiresIn == 2

\* process.env.JWT_SECRET || 'my_jwt_secret', the same in the controller and
\* in the middleware.
JWT_SECRET == "my_jwt_secret"

\* An Authorization header is the sequence of the pieces split(' ') cuts it
\* into; a piece is a token or a word without a space.  A missing header is
\* the empty sequence.
NoHeader == <<>>
Word(s) == [text |-> s, uid |-> 0, email |-> NoStr, iat |-> 0, exp |-> 0, key |-> ""]
Bearer == Word("Bearer")

\* jwt.sign({ uid, email, role }, secret, { expiresIn: '2h' }) at instant now.
jwtSign(uid, email, secret, now) ==
    [text |-> "jwt", uid |-> uid, email |-> email, iat |-> now,
     exp |-> now + expiresIn, key |-> secret]

\* jwt.verify(token, secret) returns the payload: it throws on a piece that
\* is not a token, on a signature of another key and from exp on.
jwtVerify(token, secret, now) ==
    /\ token.text = "jwt"
    /\ token.key = secret
    /\ now < token.exp

\* authHeader.startsWith('Bearer ')
StartsWithBearer(authHeader) == Len(authHeader) >= 2 /\ authHeader[1] = Bearer

\* authenticateToken, then the handler of GET /test-protected when next() is
\* called.
authenticateToken(authHeader, now) ==
    IF authHeader = NoHeader \/ ~StartsWithBearer(authHeader)
    THEN [status |-> 401, message |-> "token_missing_or_invalid", handler |-> FALSE,
          user |-> Word("")]
    ELSE LET token == authHeader[2] IN
         IF jwtVerify(token, JWT_SECRET, now)
         THEN [status |-> 200, message |-> "accessed", handler |-> TRUE,
               user |-> token]
         ELSE [status |-> 403, message |-> "invalid_or_expired", handler |-> FALSE,
               user |-> Word("")]

\* loginUser: the token of the response is Word("") when none is returned.
loginUser(authStore, body, now) ==
    LET normalizedEmail == ToLowerCase(Trim(body.email))
        signedIn == {u \in DOMAIN authStore :
                        /\ authStore[u].email = normalizedEmail
                        /\ authStore[u].password = body.password}
    IN  IF \/ normalizedEmail = NoStr
           \/ body.password = NoStr
           \/ ~isValidEmail(normalizedEmail)
           \/ Len(body.password) < 6
        THEN [status |-> 400, message |-> "invalid_email_or_password", token |-> Word("")]
        ELSE IF signedIn = {}
        THEN [status |-> 401, message |-> "invalid_email_or_password", token |-> Word("")]
        ELSE LET uid == CHOOSE u \in signedIn : TRUE IN
             [status |-> 200, message |-> "login_successful",
              token |-> jwtSign(uid, normalizedEmail, JWT_SECRET, now)]

\* req.body of POST /login: " A@x.io" and a missing email; the passwords
\* "secret", "hunter" and "abc".
LoginBodies ==
    {[email |-> e, password |-> pw] :
        e \in {<<32, 65, 64, 120, 46, 105, 111>>, NoStr},
        pw \in {<<115, 101, 99, 114, 101, 116>>, <<104, 117, 110, 116, 101, 114>>,
                <<97, 98, 99>>}}

\* The Authorization headers a client sends with the tokens it holds: none,
\* "Bearer", "Bearer <t>", "bearer <t>", "<t>", "Bearer  <t>", "Bearer <t> x",
\* where <t> is a token held, the same signed with another key or "abc".
ProtectedHeaders(held) ==
    LET pieces == held \cup {[t EXCEPT !.key = "other"] : t \in held} \cup {Word("abc")}
    IN  {NoHeader, <<Bearer>>}
        \cup {<<Bearer, t>> : t \in pieces}
        \cup {<<Word("bearer"), t>> : t \in pieces}
        \cup {<<t>> : t \in pieces}
        \cup {<<Bearer, Word(""), t>> : t \in pieces}
        \cup {<<Bearer, t, Word("x")>> : t \in pieces}

\* POST /login
Login ==
    /\ \E b \in LoginBodies, now \in clock..MaxHour :
          LET out == loginUser(auth, b, now) IN
          /\ res' = out
          /\ tokens' = IF out.status = 200 THEN tokens \cup {out.token} ELSE tokens
          /\ req' = [op |-> "login", kind |-> "user", email |-> b.email, body |-> b]
          /\ clock' = now
    /\ turn' = 1 - turn
    /\ UNCHANGED <<kind, users, registrations, locations, tasks, task_assignments,
                   supplies, alerts, proc, auth, otps, verified>>

\* GET /test-protected
TestProtected ==
    /\ \E h \in ProtectedHeaders(tokens), now \in clock..MaxHour :
          /\ res' = authenticateToken(h, now)
          /\ req' = [op |-> "protected", kind |-> "user", header |-> h]
          /\ clock' = now
    /\ turn' = 1 - turn
    /\ UNCHANGED <<kind, users, registrations, locations, tasks, task_assignments,
                   supplies, alerts, proc, auth, otps, tokens,
                   verified>>

\* The account of a@x.io (password "secret") is registered; no token has
\* been returned.
InitToken ==
    /\ kind = "user"
    /\ users = <<>> /\ registrations = <<>> /\ locations = <<>> /\ tasks = <<>>
    /\ task_assignments = <<>> /\ supplies = <<>> /\ alerts = <<>>
    /\ clock = 1 /\ req = NoReq /\ res = NoRes /\ turn = 0
    /\ proc = <<>> /\ otps = <<>> /\ tokens = {} /\ verified = {}
    /\ auth = [u \in {1} |->
                  [email |-> EmailA, password |-> <<115, 101, 99, 114, 101, 116>>]]

NextToken ==
    \/ Login
    \/ TestProtected

SpecToken == InitToken /\ [][NextToken]_vars

\* C30: the protected route runs its handler and answers 200 only for the
\* header 'Bearer <token>' whose token was signed by a login with the shared
\* secret less than two hours before; a missing or non-Bearer header is
\* answered 401 and an invalid or expired token 403, both without the handler.
C30_ProtectedRoute ==
    [][(turn' # turn /\ req'.op = "protected")
       => LET h == req'.header IN
          /\ res'.handler <=> res'.status = 200
          /\ res'.status = 200
                => /\ Len(h) = 2
                   /\ h[1] = Bearer
                   /\ h[2] \in tokens
                   /\ h[2].key = JWT_SECRET
                   /\ clock' < h[2].iat + expiresIn
          /\ (h = NoHeader \/ Len(h) < 2 \/ h[1] # Bearer) => res'.status = 401
          /\ (/\ Len(h) = 2
              /\ h[1] = Bearer
              /\ (h[2] \notin tokens \/ clock' >= h[2].iat + expiresIn))
                => res'.status = 403]_vars

\* C31: a reset-password is answered 200 only if, earlier in the run, an OTP
\* record for that email existed and a verify-otp for that email was answered
\* 200 (which verifyOtp does only against an existing, unexpired record).
C31_ResetOnlyAfterVerify ==
    [][(turn' # turn /\ req'.op = "reset" /\ res'.status = 200)
       => NormalizeEmail(req'.email) \in verified]_vars

\* C32: for every kind, the staleness check precedes the secondary-uniqueness
\* probe: a sync request that is stale against the document under its own
\* primary key and collides with another document on a secondary-unique value
\* is answered 409 with conflict_field updated_at, and no document is written.
C32_StaleBeforeUniqueness ==
    [][(/\ SyncStep
        /\ req'.id \in DOMAIN Store
        /\ req'.body.updated_at.k = "iso"
        /\ Store[req'.id].updated_at.k = "iso"
        /\ req'.body.updated_at.t < Store[req'.id].updated_at.t
        /\ Collides(kind, Store, req'.body))
       => (/\ res'.status = 409
           /\ res'.conflict_field = "updated_at"
           /\ Store' = Store)]_vars

\* The primary key a document of kind k carries.
KeyOf(k, doc) ==
    CASE k = "user" -> doc.user_id
      [] k = "registration" -> doc.registration_id
      [] k = "location" -> doc.location_id
      [] k = "task" -> doc.task_id
      [] k = "task_assignment" -> doc.assignment_id
      [] k = "supply" -> doc.supply_id
      [] k = "alert" -> doc.alert_id

\* C33: when a User, Registration or Location sync on the create path is
\* auto-merged, the only document written is the matched server document: no
\* document appears under the client's key, the collection keeps its size, the
\* matched document keeps its primary key, and the 200 response carries it.
C33_AutoMergeWritesServerDoc ==
    [][(/\ SyncStep
        /\ kind \in {"user", "registration", "location"}
        /\ req'.id \notin DOMAIN Store
        /\ res'.resolved_as # "none")
       => LET sid == res'.server_id IN
          /\ res'.status = 200
          /\ sid \in DOMAIN Store
          /\ Collides(kind, [x \in {sid} |-> Store[sid]], req'.body)
          /\ DOMAIN Store' = DOMAIN Store
          /\ req'.id \notin DOMAIN Store'
          /\ \A x \in DOMAIN Store \ {sid} : Store'[x] = Store[x]
          /\ KeyOf(kind, Store'[sid]) = sid
          /\ Store'[sid].updated_at = Iso(clock')]_vars

\* A registration sent under key 2 has been merged into stored registration 1.
C33_Witness ==
    /\ kind = "registration"
    /\ req.op = "sync"
    /\ req.id = 2
    /\ res.status = 200
    /\ res.resolved_as = "same_person_detected"
    /\ res.server_id = 1
    /\ DOMAIN registrations = {1}
    /\ registrations[1].updated_at = Iso(clock)

\* Documents a and b are assignments of the same user to the same task.
SamePair(a, b) == a.task_id = b.task_id /\ a.user_id = b.user_id

\* C34: a TaskAssignment sync whose (task_id, user_id) pair is held by a
\* stored assignment with another assignment_id is auto-merged into that
\* assignment and answered 200; no TaskAssignment sync is answered with a
\* unique_constraint conflict, and no two stored assignments hold the same pair.
C34_AssignmentPairAlwaysMerged ==
    [][(SyncStep /\ kind = "task_assignment")
       => /\ (\E x \in DOMAIN Store \ {req'.id} : SamePair(Store[x], req'.body))
               => /\ res'.status = 200
                  /\ res'.resolved_as = "same_assignment_detected"
                  /\ res'.server_id \in DOMAIN Store \ {req'.id}
                  /\ SamePair(Store[res'.server_id], req'.body)
                  /\ DOMAIN Store' = DOMAIN Store
          /\ res'.conflict_type # "unique_constraint"
          /\ \A x, y \in DOMAIN Store' :
                SamePair(Store'[x], Store'[y]) => x = y]_vars

\* A request under key 2 for the pair of stored assignment 1, with another
\* status, has been merged into assignment 1.
C34_Witness ==
    /\ kind = "task_assignment"
    /\ req.op = "sync"
    /\ req.id = 2
    /\ res.status = 200
    /\ res.resolved_as = "same_assignment_detected"
    /\ res.server_id = 1
    /\ 1 \in DOMAIN task_assignments
    /\ SamePair(task_assignments[1], req.body)
    /\ req.body.status = "completed"

\* C35: every resolve-conflict response with status 200 names a
\* resolution_strategy that is one of the allowed_strategies of the same
\* response; a document is created under an absent primary key only when the
\* requested strategy is client_wins.
C35_ResolvedStrategyAllowed ==
    [][(ResolveStep /\ res'.status = 200)
       => /\ \E i \in DOMAIN res'.allowed_strategies :
                res'.allowed_strategies[i] = res'.resolution_strategy
          /\ (req'.id \notin DOMAIN Store /\ req'.id \in DOMAIN Store')
                => req'.strategy = "client_wins"]_vars

\* C36: after a resolve-conflict answered 200, the stored document agrees with
\* the resolvedData of the response on every field resolvedData carries (a
\* field it holds as undefined is not carried).
C36_StoredIsResolvedData ==
    [][(ResolveStep /\ res'.status = 200)
       => LET resolvedData == res'.resolvedData
              stored == Store'[req'.id]
          IN  \A f \in DOMAIN resolvedData :
                 IF f \in DOMAIN stored
                 THEN stored[f] = resolvedData[f]
                 ELSE resolvedData[f] = Undefined(f)]_vars

\* ------------------------------ SpecResetRace: two concurrent reset-password
\* Each await of resetPassword is one step of a request; proc[p] holds the
\* request's position and its local variables.
ResetInFlight(b) ==
    [pc |-> "query", body |-> b, uid |-> 0, userData |-> <<>>, actualUid |-> 0,
     res |-> NoRes]

\* A createUser that does not reject an email already registered.
authCreateUserAnyway(col, authStore, email, password) ==
    LET uid == FreshUid(col, authStore) IN
    [ok |-> TRUE, uid |-> uid,
     auth |-> DocSet(authStore, uid, [email |-> email, password |-> password])]

\* admin.auth().createUser({email, password, displayName}): it throws
\* auth/email-already-exists for an email an account holds.
authCreateUser(col, authStore, email, password) ==
    IF \E a \in DOMAIN authStore : authStore[a].email = email
    THEN [ok |-> FALSE, uid |-> 0, auth |-> authStore]
    ELSE LET uid == FreshUid(col, authStore) IN
         [ok |-> TRUE, uid |-> uid,
          auth |-> DocSet(authStore, uid, [email |-> email, password |-> password])]

\* What no step of a reset-password request in flight touches.
ResetRaceFrame ==
    UNCHANGED <<kind, registrations, locations, tasks, task_assignments,
                supplies, alerts, clock, req, res, turn, tokens, verified>>

\* The request moves to pc, or ends with a response.
ResetGoto(p, pc) == proc' = [proc EXCEPT ![p].pc = pc]
ResetEnd(p, response) == proc' = [proc EXCEPT ![p].pc = "done", ![p].res = response]

\* await usersCollection.where('email', '==', normalizedEmail).get()
ResetQuery(p) ==
    /\ proc[p].pc = "query"
    /\ LET normalizedEmail == NormalizeEmail(proc[p].body.email)
           found == {x \in DOMAIN users : users[x].email = normalizedEmail}
       IN  IF found = {}
           THEN ResetEnd(p, AuthRes(404, "user_not_found"))
           ELSE proc' = [proc EXCEPT ![p].pc = "getUser",
                                     ![p].uid = MinId(found),
                                     ![p].userData = users[MinId(found)],
                                     ![p].actualUid = MinId(found)]
    /\ UNCHANGED <<users, auth, otps>>
    /\ ResetRaceFrame

\* await admin.auth().getUser(uid)
ResetGetUser(p) ==
    /\ proc[p].pc = "getUser"
    /\ ResetGoto(p, IF proc[p].uid \in DOMAIN auth THEN "updateUser" ELSE "getUserByEmail")
    /\ UNCHANGED <<users, auth, otps>>
    /\ ResetRaceFrame

\* await admin.auth().getUserByEmail(normalizedEmail)
ResetGetUserByEmail(p) ==
    /\ proc[p].pc = "getUserByEmail"
    /\ LET byEmail == {a \in DOMAIN auth :
                          auth[a].email = NormalizeEmail(proc[p].body.email)}
       IN  IF byEmail = {}
           THEN ResetGoto(p, "createUser")
           ELSE proc' = [proc EXCEPT ![p].pc = "delete",
                                     ![p].actualUid = MinId(byEmail)]
    /\ UNCHANGED <<users, auth, otps>>
    /\ ResetRaceFrame

\* await admin.auth().createUser(...); its throw reaches the outer catch.
ResetCreateUser(p) ==
    /\ proc[p].pc = "createUser"
    /\ LET out == authCreateUser(users, auth, NormalizeEmail(proc[p].body.email),
                                 proc[p].body.password)
       IN  /\ auth' = out.auth
           /\ IF out.ok
              THEN proc' = [proc EXCEPT ![p].pc = "delete", ![p].actualUid = out.uid]
              ELSE ResetEnd(p, AuthRes(500, "error_resetting_password"))
    /\ UNCHANGED <<users, otps>>
    /\ ResetRaceFrame

\* await usersCollection.doc(uid).delete()
ResetDelete(p) ==
    /\ proc[p].pc = "delete"
    /\ users' = DocDelete(users, proc[p].uid)
    /\ ResetGoto(p, "set")
    /\ UNCHANGED <<auth, otps>>
    /\ ResetRaceFrame

\* await usersCollection.doc(actualUid).set({...userData, updated_at})
ResetSet(p) ==
    /\ proc[p].pc = "set"
    /\ users' = DocSet(users, proc[p].actualUid,
                       [proc[p].userData EXCEPT !.updated_at = ServerTimestamp(clock)])
    /\ ResetGoto(p, "updateUser")
    /\ UNCHANGED <<auth, otps>>
    /\ ResetRaceFrame

\* await admin.auth().updateUser(actualUid, { password })
ResetUpdateUser(p) ==
    /\ proc[p].pc = "updateUser"
    /\ IF proc[p].actualUid \in DOMAIN auth
       THEN /\ auth' = [auth EXCEPT ![proc[p].actualUid].password = proc[p].body.password]
            /\ ResetGoto(p, "update")
       ELSE /\ auth' = auth
            /\ ResetEnd(p, AuthRes(500, "error_resetting_password"))
    /\ UNCHANGED <<users, otps>>
    /\ ResetRaceFrame

\* await usersCollection.doc(actualUid).update({updated_at}): update throws
\* on a document that does not exist.
ResetUpdate(p) ==
    /\ proc[p].pc = "update"
    /\ IF proc[p].actualUid \in DOMAIN users
       THEN /\ users' = [users EXCEPT ![proc[p].actualUid].updated_at =
                                          ServerTimestamp(clock)]
            /\ ResetGoto(p, "cleanup")
       ELSE /\ users' = users
            /\ ResetEnd(p, AuthRes(500, "error_resetting_password"))
    /\ UNCHANGED <<auth, otps>>
    /\ ResetRaceFrame

\* await db.collection('otps').doc(normalizedEmail).delete(), and the 200.
ResetCleanup(p) ==
    /\ proc[p].pc = "cleanup"
    /\ otps' = DocDelete(otps, NormalizeEmail(proc[p].body.email))
    /\ ResetEnd(p, AuthRes(200, "password_reset"))
    /\ UNCHANGED <<users, auth>>
    /\ ResetRaceFrame

NextResetRace ==
    \E p \in Procs :
        \/ ResetQuery(p)
        \/ ResetGetUser(p)
        \/ ResetGetUserByEmail(p)
        \/ ResetCreateUser(p)
        \/ ResetDelete(p)
        \/ ResetSet(p)
        \/ ResetUpdateUser(p)
        \/ ResetUpdate(p)
        \/ ResetCleanup(p)

\* The only profile of a@x.io is stored under key 1, which the AuthStore does
\* not know: a@x.io has no account or an account under uid 3.  An OTP record
\* for a@x.io may exist.  Two valid reset-password requests for a@x.io (sent
\* as "a@x.io" or " A@x.io") are in flight.
InitResetRace ==
    /\ kind = "user"
    /\ registrations = <<>> /\ locations = <<>> /\ tasks = <<>>
    /\ task_assignments = <<>> /\ supplies = <<>> /\ alerts = <<>>
    /\ clock = 1 /\ req = NoReq /\ res = NoRes /\ turn = 0
    /\ tokens = {} /\ verified = {}
    /\ \E pa \in UserBodies({1}, {EmailA}, {NoStr}) :
          /\ pa.name = NameAna
          /\ pa.updated_at = Iso(1)
          /\ users = createUserDoc(<<>>, 1, pa, 1)
    /\ \E ua \in {0, 3} :
          auth = [u \in {ua} \ {0} |->
                     [email |-> EmailA,
                      password |-> <<111, 108, 100, 112, 97, 115, 115>>]]
    /\ \E held \in BOOLEAN :
          otps = [e \in (IF held THEN {EmailA} ELSE {}) |->
                     [email |-> EmailA, otp |-> 100000, expiresAt |-> MaxMinute]]
    /\ \E b1, b2 \in {b \in ResetBodies :
                         /\ NormalizeEmail(b.email) = EmailA
                         /\ b.password = b.confirm_password
                         /\ Len(b.password) >= 6} :
          proc = [p \in Procs |-> ResetInFlight(IF p = 1 THEN b1 ELSE b2)]

SpecResetRace == InitResetRace /\ [][NextResetRace]_vars

\* C37: once two concurrent reset-password requests for a@x.io, started with
\* one profile for a@x.io whose key the AuthStore does not know, have both
\* completed and one was answered 200, exactly one profile holds a@x.io and
\* its key is the uid of the account the AuthStore holds for a@x.io.
C37_ConcurrentResetsOneProfile ==
    (BothDone /\ \E p \in Procs : proc[p].res.status = 200)
        => /\ Cardinality({x \in DOMAIN users : users[x].email = EmailA}) = 1
           /\ \A x \in DOMAIN users :
                 users[x].email = EmailA
                    => /\ x \in DOMAIN auth
                       /\ auth[x].email = EmailA
                       /\ \A a \in DOMAIN auth : auth[a].email = EmailA => a = x

\* Both requests were answered 200 after their deletes and sets interleaved,
\* and the profile has left key 1.
C37_Witness ==
    /\ BothDone
    /\ \A p \in Procs : proc[p].res.status = 200 /\ proc[p].uid = 1
    /\ 1 \notin DOMAIN users
    /\ \E x \in DOMAIN users : users[x].email = EmailA /\ x \in DOMAIN auth

\* ---------------------------------- SpecRegister: register with failing calls
\* registerUser when one of its three store calls throws: createUser,
\* setCustomUserClaims or createUserDoc.  The catch answers 400 and undoes
\* nothing.
registerUserFailing(col, authStore, body, now, failing) ==
    LET out == registerUser(col, authStore, body, now) IN
    IF out.res.status # 201 \/ failing = "none" THEN out
    ELSE IF failing = "createUser"
    THEN [col |-> col, auth |-> authStore, res |-> AuthRes(400, "error")]
    ELSE [col |-> col, auth |-> out.auth, res |-> AuthRes(400, "error")]

\* req.body of POST /register: " A@x.io", "b@x.io" and "b@x" as emails,
\* "secret" and "abc" as passwords.
RegisterBodiesTwo ==
    {[email |-> e, password |-> pw, name |-> NameAna, role |-> "volunteer",
      phone_number |-> NoStr] :
        e \in {<<32, 65, 64, 120, 46, 105, 111>>, EmailB, <<98, 64, 120>>},
        pw \in {<<115, 101, 99, 114, 101, 116>>, <<97, 98, 99>>}}

\* POST /register, with at most one failing store call.
RegisterUserFailing ==
    /\ \E b \in RegisterBodiesTwo, now \in clock..MaxT,
          failing \in {"none", "createUser", "setCustomUserClaims", "createUserDoc"} :
          LET out == registerUserFailing(users, auth, b, now, failing) IN
          /\ users' = out.col
          /\ auth' = out.auth
          /\ res' = out.res
          /\ req' = [op |-> "register", kind |-> "user", email |-> b.email, body |-> b,
                     failing |-> failing]
          /\ clock' = now
    /\ UNCHANGED otps
    /\ AuthFrameKept

NextRegister ==
    \/ RegisterUserFailing
    \/ SyncUser({b \in UserBodies({1}, {EmailA}, {NoStr}) : b.name = NameAna})

InitRegister == InitKind("user")

SpecRegister == InitRegister /\ [][NextRegister]_vars

\* C38: after any register request, answered 201 or with an error, and with
\* any single store call failing, an account that request created exists if
\* and only if a profile under the same uid exists.
C38_RegisterLeavesNoOrphan ==
    [][(turn' # turn /\ req'.op = "register")
       => /\ \A uid \in DOMAIN auth' \ DOMAIN auth : uid \in DOMAIN users'
          /\ \A uid \in DOMAIN users' \ DOMAIN users : uid \in DOMAIN auth']_vars

\* C39: for the Supply merge, whenever client and server both carry a
\* quantity, the merged quantity is the minimum of the two, for every ordering
\* of the two updated_at instants.
C39_SupplyMergeTakesMinimum ==
    (/\ kind = "supply"
     /\ req.op = "reduce" /\ req.strategy = "merge"
     /\ proc.client.quantity # NullQuantity
     /\ proc.server.quantity # NullQuantity)
        => res.resolvedData.quantity =
              IF proc.client.quantity < proc.server.quantity
              THEN proc.client.quantity ELSE proc.server.quantity

\* ----------------------------------------- SpecJoin: the status joins alone
\* The status values of the data models: the rank tables' names, 'pending'
\* (the default createTaskDoc and updateTaskDoc store) and 'declined'.
TaskModelStatuses == TaskStatuses \cup {"pending"}
AssignmentModelStatuses == AssignmentStatuses \cup {"declined"}

\* The status join of kind k.
statusJoin(k, a, b) ==
    CASE k = "task" -> calculateMostAdvancedStatus(a, b)
      [] k = "task_assignment" -> calculateMostAdvancedAssignmentStatus(a, b)
      [] k = "registration" -> calculateMostAdvancedRegistrationStatus(a, b)

ModelStatuses(k) ==
    CASE k = "task" -> TaskModelStatuses
      [] k = "task_assignment" -> AssignmentModelStatuses
      [] k = "registration" -> RegistrationStatuses

InitJoin ==
    \E k \in {"task", "task_assignment", "registration"} :
        /\ InitStore(k)
        /\ \E a, b \in ModelStatuses(k) : proc = [client |-> a, server |-> b]

\* The join runs on the pair, in both orders.
ApplyJoin ==
    /\ turn = 0
    /\ res' = [status |-> 200,
               joined |-> statusJoin(kind, proc.client, proc.server),
               swapped |-> statusJoin(kind, proc.server, proc.client)]
    /\ req' = [op |-> "join", kind |-> kind]
    /\ turn' = 1
    /\ UNCHANGED <<kind, users, registrations, locations, tasks, task_assignments,
                   supplies, alerts, clock, proc, auth, otps, tokens, verified>>

NextJoin == ApplyJoin

SpecJoin == InitJoin /\ [][NextJoin]_vars

\* C40: for each status lattice and all status values a and b of the kind's
\* data model, join(a, b) = join(b, a).
C40_StatusJoinCommutes ==
    req.op = "join" => res.joined = res.swapped

====
